---- MODULE Spec2Model ----
(***************************************************************************)
(* Session-scoped storage layer of the Move VM runtime:                    *)
(*   - TransactionDataCache (language/move-vm/runtime/src/data_cache.rs),  *)
(*     whose per-account entries live in the RocksDB database opened at    *)
(*     TX_CACHE_DB_PATH;                                                   *)
(*   - VMRuntime::new_session and VMRuntime::publish_module_bundle         *)
(*     (language/move-vm/runtime/src/runtime.rs);                          *)
(*   - argument marshaling and the execution entry points of VMRuntime     *)
(*     (same file);                                                        *)
(*   - the table extension: NativeTableContext, TableData, Table and the   *)
(*     natives (language/extensions/move-table-extension/src/lib.rs);      *)
(*   - the Mutator of the bytecode adapter                                 *)
(*     (pontem/bytecode_adapter/src/mutator.rs);                           *)
(*   - StackifierTopologicalSort                                           *)
(*     (language/move-prover/bytecode/src/stackifier_topological_sort.rs). *)
(***************************************************************************)
EXTENDS Integers, Sequences, FiniteSets, TLC

VARIABLES
    account_db,     \* contents of the database at TX_CACHE_DB_PATH: raw key -> stored JSON text
    db_open,        \* session holding the database open (its LOCK file), 0 when closed
    status,         \* per session: "unborn", "alive", "finished", "dropped", "panicked"
    event_data,     \* per session: the events emitted so far, in order
    get_resource_calls, \* per session: number of remote get_resource calls per (address, type)
    log,            \* per session: the data-cache operations run so far, with inputs and results
    ret,            \* the publish_module_bundle call of the live session: inputs, result, writes
    table_data,     \* the TableData of the session's NativeTableContext
    resolve_table_entry_calls, \* number of remote resolve_table_entry calls per (handle, key bytes)
    table_log,      \* the table natives run so far in the session, with inputs and results
    mutator,        \* the bytecode adapter's Mutator: buffer_diff and length_diff
    mutated,        \* the Mutator::mutate call made: the buffer given and the outcome
    top_sort,       \* the StackifierTopologicalSort: last_popped_block (<<>> for None,
                    \* <<b>> for Some(b)), top, complete_top (BlockId -> StackifierDependency)
    popped          \* the results of the pop calls made on top_sort, in order

table_vars == <<table_data, resolve_table_entry_calls, table_log>>
tool_vars == <<mutator, mutated, top_sort, popped>>
vars == <<account_db, db_open, status, event_data, get_resource_calls, log, ret,
          table_data, resolve_table_entry_calls, table_log,
          mutator, mutated, top_sort, popped>>

(***************************************************************************)
(* Bounds of the model.                                                    *)
(***************************************************************************)
MaxSessions == 2
MaxOps == 3
MaxEvents == 2
MaxBatch == 3

Sessions == 1..MaxSessions

(***************************************************************************)
(* Account addresses are AddrLen raw bytes; the key of an account in the   *)
(* database is addr.as_ref(), the raw bytes themselves.                    *)
(***************************************************************************)
AddrLen == 16

Addr(n) == [i \in 1..AddrLen |-> IF i = AddrLen THEN n ELSE 0]
ONE == Addr(1)
TWO == Addr(2)
\* the 16 bytes  "0x1"  followed by spaces: an address whose raw bytes are a JSON text
QUOTED == [i \in 1..AddrLen |->
             IF i = 1 THEN 34 ELSE IF i = 2 THEN 48 ELSE IF i = 3 THEN 120
             ELSE IF i = 4 THEN 49 ELSE IF i = 5 THEN 34 ELSE 32]

Addrs == {ONE, TWO, QUOTED}

EmptyMap == [x \in {} |-> 0]
MapPut(m, k, v) == [x \in (DOMAIN m) \cup {k} |-> IF x = k THEN v ELSE m[x]]

(***************************************************************************)
(* Byte strings in lexicographic order: the iteration order of the         *)
(* database (IteratorMode::Start).                                         *)
(***************************************************************************)
RECURSIVE LexLess(_, _)
LexLess(a, b) ==
    IF a = <<>> THEN b # <<>>
    ELSE IF b = <<>> THEN FALSE
    ELSE IF Head(a) # Head(b) THEN Head(a) < Head(b)
    ELSE LexLess(Tail(a), Tail(b))

RECURSIVE SortedKeys(_)
SortedKeys(S) ==
    IF S = {} THEN <<>>
    ELSE LET m == CHOOSE k \in S : \A o \in S \ {k} : LexLess(k, o)
         IN  <<m>> \o SortedKeys(S \ {m})

(***************************************************************************)
(* parse_key: serde_json::from_slice::<AccountAddress>(key_bytes).         *)
(* A JSON text for an address is a string literal "0x<hex digits>",        *)
(* surrounded by optional white space; short literals are padded with      *)
(* leading zeros.  Escapes inside the literal are not modelled (no key of  *)
(* the model contains a backslash): they are rejected.                     *)
(***************************************************************************)
IsJsonWs(c) == c \in {32, 9, 10, 13}

RECURSIVE TrimLeft(_)
TrimLeft(s) == IF s # <<>> /\ IsJsonWs(Head(s)) THEN TrimLeft(Tail(s)) ELSE s

RECURSIVE TrimRight(_)
TrimRight(s) ==
    IF s # <<>> /\ IsJsonWs(s[Len(s)]) THEN TrimRight(SubSeq(s, 1, Len(s) - 1)) ELSE s

IsHexDigit(c) == (c >= 48 /\ c <= 57) \/ (c >= 97 /\ c <= 102) \/ (c >= 65 /\ c <= 70)
HexVal(c) == IF c <= 57 THEN c - 48 ELSE IF c >= 97 THEN c - 87 ELSE c - 55

NoKey == <<>>

from_hex_literal(lit) ==
    IF Len(lit) < 2 \/ lit[1] # 48 \/ lit[2] # 120 THEN NoKey
    ELSE LET digits == SubSeq(lit, 3, Len(lit))
             n == Len(digits)
         IN  IF n > 2 * AddrLen \/ \E i \in 1..n : ~IsHexDigit(digits[i]) THEN NoKey
             ELSE LET pad == 2 * AddrLen - n
                      nib(j) == IF j <= pad THEN 0 ELSE HexVal(digits[j - pad])
                  IN  [i \in 1..AddrLen |-> 16 * nib(2 * i - 1) + nib(2 * i)]

parse_key(key_bytes) ==
    LET t == TrimRight(TrimLeft(key_bytes))
    IN  IF Len(t) < 2 \/ t[1] # 34 \/ t[Len(t)] # 34 THEN NoKey
        ELSE LET inner == SubSeq(t, 2, Len(t) - 1)
             IN  IF \E i \in 1..Len(inner) : inner[i] \in {34, 92} \/ inner[i] < 32
                 THEN NoKey
                 ELSE from_hex_literal(inner)

(***************************************************************************)
(* AccountDataCache and its stored form.  serde_json writes the struct as  *)
(* a JSON object; the model keeps the object abstractly, tagged as text.   *)
(***************************************************************************)
AccountDataCache_new == [data_map |-> EmptyMap, module_map |-> EmptyMap]

to_vec(cache) == <<"json", cache.data_map, cache.module_map>>
deserialize_value(value_bytes) == [data_map |-> value_bytes[2], module_map |-> value_bytes[3]]

\* load_account_data_cache: the entry stored under the raw address, or a fresh one
load_account_data_cache(db, addr) ==
    IF addr \in DOMAIN db THEN deserialize_value(db[addr]) ELSE AccountDataCache_new

has_account_data_cache(db, addr) == addr \in DOMAIN db

save_account_data_cache(db, addr, cache) == MapPut(db, addr, to_vec(cache))

(***************************************************************************)
(* Module bytes.  A blob either parses to a CompiledModule (self address,  *)
(* name, immediate dependencies, public interface) or is garbage.          *)
(***************************************************************************)
Mod(a, n, d, i) == [kind |-> "module", addr |-> a, name |-> n, deps |-> d, iface |-> i]
Garbage == [kind |-> "garbage", addr |-> ONE, name |-> "", deps |-> {}, iface |-> {}]

IdA == <<ONE, "A">>
IdB == <<ONE, "B">>
IdR == <<ONE, "R">>

A0 == Mod(ONE, "A", {}, {1})
A_B == Mod(ONE, "A", {IdB}, {1})
A_less == Mod(ONE, "A", {}, {})
B_A == Mod(ONE, "B", {IdA}, {1})
R0 == Mod(ONE, "R", {}, {1})
R_less == Mod(ONE, "R", {}, {})
A_at_TWO == Mod(TWO, "A", {}, {1})

self_id(m) == <<m.addr, m.name>>

(***************************************************************************)
(* The remote resolver: an immutable snapshot, read through get_module and *)
(* get_resource.  A call fails when the storage behind it fails.           *)
(***************************************************************************)
RemoteModules == [id \in {IdR} |-> R0]

\* get_resource answers Some(bytes) or None
Some(b) == [some |-> TRUE, bytes |-> b]
None == [some |-> FALSE, bytes |-> <<>>]
GoodBlob == <<7>>
BadBlob == <<>>
\* ONE holds a Coin, TWO holds bytes that are no Coin, no other resource exists
RemoteResource(addr, ty) ==
    IF ty = "Coin" /\ addr = ONE THEN Some(GoodBlob)
    ELSE IF ty = "Coin" /\ addr = TWO THEN Some(BadBlob)
    ELSE None

Types == {"Coin", "u64"}
\* Loader::type_to_type_tag yields a struct tag for struct types only
IsStructType(ty) == ty = "Coin"
\* Loader::type_to_type_layout: a reference has no layout
type_to_type_layout(ty) == IF ty \in {"signer", "u64", "Coin"} THEN Some(ty) ELSE None
\* Value::simple_deserialize against the layout of Coin { value: u8 }
simple_deserialize(blob) == IF Len(blob) = 1 THEN Some(blob[1]) ELSE None
simple_serialize(val) == <<val>>

Res(st, v) == [status |-> st, val |-> v]
Entry(o, a, e, r) == [op |-> o, arg |-> a, env |-> e, res |-> r]

(***************************************************************************)
(* TransactionDataCache::load_resource.  resolver_ok is the outcome of the *)
(* remote get_resource call.  The entry read from the database is a local  *)
(* copy; the slot inserted into it is dropped with it, and the function    *)
(* ends in the unconditional Err of lines 316-319.                         *)
(***************************************************************************)
load_resource_calls_remote(db, addr, ty) ==
    /\ ty \notin DOMAIN load_account_data_cache(db, addr).data_map
    /\ IsStructType(ty)

load_resource(db, addr, ty, resolver_ok) ==
    LET account_cache == load_account_data_cache(db, addr)
    IN  IF ty \notin DOMAIN account_cache.data_map
        THEN IF ~IsStructType(ty) THEN Res("INTERNAL_TYPE_ERROR", "no slot")
             ELSE IF ~resolver_ok THEN Res("UNKNOWN_INVARIANT_VIOLATION_ERROR", "no slot")
             ELSE LET blob == RemoteResource(addr, ty)
                  IN  IF blob.some /\ ~simple_deserialize(blob.bytes).some
                      THEN Res("FAILED_TO_DESERIALIZE_RESOURCE", "no slot")
                      ELSE Res("UNKNOWN_INVARIANT_VIOLATION_ERROR", "no slot")
        ELSE Res("UNKNOWN_INVARIANT_VIOLATION_ERROR", "no slot")

(***************************************************************************)
(* TransactionDataCache::load_module and exists_module.                    *)
(***************************************************************************)
load_module(db, module_id, resolver_ok) ==
    LET addr == module_id[1]
        name == module_id[2]
    IN  IF has_account_data_cache(db, addr)
           /\ name \in DOMAIN load_account_data_cache(db, addr).module_map
        THEN Res("Ok", load_account_data_cache(db, addr).module_map[name])
        ELSE IF ~resolver_ok THEN Res("UNKNOWN_INVARIANT_VIOLATION_ERROR", Garbage)
        ELSE IF module_id \in DOMAIN RemoteModules THEN Res("Ok", RemoteModules[module_id])
        ELSE Res("LINKER_ERROR", Garbage)

exists_module(db, module_id, resolver_ok) ==
    LET addr == module_id[1]
        name == module_id[2]
    IN  IF has_account_data_cache(db, addr)
           /\ name \in DOMAIN load_account_data_cache(db, addr).module_map
        THEN Res("Ok", TRUE)
        ELSE IF ~resolver_ok THEN Res("STORAGE_ERROR", FALSE)
        ELSE Res("Ok", module_id \in DOMAIN RemoteModules)

(***************************************************************************)
(* TransactionDataCache::publish_module: read the account's entry, insert  *)
(* the blob under the module name, write the entry back.                   *)
(***************************************************************************)
publish_module(db, module_id, blob) ==
    LET account_cache == load_account_data_cache(db, module_id[1])
    IN  save_account_data_cache(db, module_id[1],
            [account_cache EXCEPT !.module_map = MapPut(@, module_id[2], blob)])

(***************************************************************************)
(* TransactionDataCache::into_effects: iterate the whole database in key   *)
(* order; an entry whose key or value does not parse ends the call with    *)
(* INTERNAL_TYPE_ERROR; otherwise the entry is written into the change set *)
(* under the parsed address.  No stored data_map holds a slot (none is     *)
(* ever saved), so the resource delta of every account is empty.           *)
(***************************************************************************)
AccountChangeSet(cache) ==
    [modules |-> cache.module_map, resources |-> EmptyMap]

RECURSIVE into_effects_loop(_, _, _)
into_effects_loop(db, keys, change_set) ==
    IF keys = <<>> THEN Res("Ok", change_set)
    ELSE LET addr == parse_key(Head(keys))
         IN  IF addr = NoKey THEN Res("INTERNAL_TYPE_ERROR", EmptyMap)
             ELSE into_effects_loop(db, Tail(keys),
                      MapPut(change_set, addr,
                             AccountChangeSet(deserialize_value(db[Head(keys)]))))

\* an emitted event (guid, seq_num, ty, layout, val) becomes (guid, seq_num, tag, blob)
EventOut(ev) == <<ev[1], ev[2], ev[3], simple_serialize(ev[4])>>

into_effects(db, events) ==
    LET r == into_effects_loop(db, SortedKeys(DOMAIN db), EmptyMap)
    IN  IF r.status = "Ok"
        THEN Res("Ok", <<r.val, [i \in 1..Len(events) |-> EventOut(events[i])]>>)
        ELSE Res(r.status, <<EmptyMap, <<>>>>)

(***************************************************************************)
(* TransactionDataCache::emit_event and events.  An event is (guid,        *)
(* seq_num, ty, val); emit_event fails, pushing nothing, when the loader   *)
(* has no layout for ty.                                                   *)
(***************************************************************************)
\* emit_event putting the new event in front of the record
emit_event_in_front(event_data_of, ev) ==
    IF ~type_to_type_layout(ev[3]).some
    THEN [res |-> Res("UNKNOWN_INVARIANT_VIOLATION_ERROR", "unit"), events |-> event_data_of]
    ELSE [res |-> Res("Ok", "unit"), events |-> <<ev>> \o event_data_of]

emit_event(event_data_of, ev) ==
    IF ~type_to_type_layout(ev[3]).some
    THEN [res |-> Res("UNKNOWN_INVARIANT_VIOLATION_ERROR", "unit"), events |-> event_data_of]
    ELSE [res |-> Res("Ok", "unit"), events |-> Append(event_data_of, ev)]

\* events(): the record itself
DataStore_events(event_data_of) == event_data_of

(***************************************************************************)
(* TransactionDataCache::num_mutated_accounts: 1 for the sender, plus the  *)
(* parsed entries of other addresses that hold a mutated slot.             *)
(***************************************************************************)
num_mutated_accounts(db, sender) ==
    1 + Cardinality({k \in DOMAIN db :
            /\ parse_key(k) # NoKey
            /\ parse_key(k) # sender
            /\ \E ty \in DOMAIN deserialize_value(db[k]).data_map :
                   deserialize_value(db[k]).data_map[ty].mutated})

(***************************************************************************)
(* The state machine of the data cache: sessions over one remote snapshot. *)
(***************************************************************************)
IdQ == <<QUOTED, "A">>
ModuleIds == {IdA, IdR, IdQ}
ResourceAddrs == {ONE, TWO, QUOTED}
\* inputs of the operations: arguments and the outcome of the remote call
LoadResourceInputs ==
    {<<ONE, "Coin", TRUE>>, <<TWO, "Coin", TRUE>>, <<QUOTED, "Coin", TRUE>>,
     <<ONE, "Coin", FALSE>>, <<ONE, "u64", TRUE>>}
ModuleInputs == {<<IdA, TRUE>>, <<IdR, TRUE>>, <<IdQ, TRUE>>, <<IdA, FALSE>>}
PublishInputs ==
    {<<IdA, A0, TRUE>>, <<IdA, A_B, TRUE>>, <<IdQ, A0, TRUE>>, <<IdR, A0, TRUE>>,
     <<IdA, A0, FALSE>>}
EventArgs == {<<"guid", 0, "Coin", 7>>, <<"guid", 1, "Coin", 8>>, <<"guid", 2, "&u64", 7>>}

RECURSIVE OpsUpTo(_)
OpsUpTo(n) == IF n = 0 THEN 0 ELSE Len(log[n]) + OpsUpTo(n - 1)
TotalOps == OpsUpTo(MaxSessions)
NoRet == [op |-> "none", session |-> 0, arg |-> <<>>, env |-> <<>>,
          res |-> Res("none", [step |-> 0, written |-> <<>>]), before |-> EmptyMap]
CanRun(s) == status[s] = "alive" /\ TotalOps < MaxOps
Logged(s, e) == log' = [log EXCEPT ![s] = Append(@, e)]

Init ==
    /\ account_db = EmptyMap
    /\ db_open = 0
    /\ status = [s \in Sessions |-> "unborn"]
    /\ event_data = [s \in Sessions |-> <<>>]
    /\ get_resource_calls = [s \in Sessions |-> [k \in ResourceAddrs \X Types |-> 0]]
    /\ log = [s \in Sessions |-> <<>>]
    /\ ret = NoRet
    /\ table_data = [new_tables |-> {}, removed_tables |-> {}, tables |-> EmptyMap]
    /\ resolve_table_entry_calls = EmptyMap
    /\ table_log = <<>>
    /\ mutator = [buffer_diff |-> <<>>, length_diff |-> 0]
    /\ mutated = [done |-> FALSE]
    /\ top_sort = [last_popped_block |-> <<>>, top |-> <<>>, complete_top |-> <<>>]
    /\ popped = <<>>

\* VMRuntime::new_session -> TransactionDataCache::new: DB::open_default(..).unwrap()
\* fails, and the unwrap panics, while another session holds the database open
new_session(s) ==
    /\ status[s] = "unborn"
    /\ \A t \in Sessions : t < s => status[t] # "unborn"
    /\ IF db_open = 0
       THEN /\ status' = [status EXCEPT ![s] = "alive"]
            /\ db_open' = s
            /\ ret' = NoRet
       ELSE /\ status' = [status EXCEPT ![s] = "panicked"]
            /\ UNCHANGED <<db_open, ret>>
    /\ UNCHANGED <<account_db, event_data, get_resource_calls, log>>
    /\ UNCHANGED <<table_vars, tool_vars>>

\* the session is dropped (on a failure or by its owner) without into_effects
drop_session(s) ==
    /\ status[s] = "alive"
    /\ status' = [status EXCEPT ![s] = "dropped"]
    /\ db_open' = 0
    /\ ret' = NoRet
    /\ UNCHANGED <<account_db, event_data, get_resource_calls, log>>
    /\ UNCHANGED <<table_vars, tool_vars>>

do_load_resource(s, addr, ty, resolver_ok) ==
    /\ CanRun(s)
    /\ get_resource_calls' =
         IF load_resource_calls_remote(account_db, addr, ty)
         THEN [get_resource_calls EXCEPT ![s][<<addr, ty>>] = @ + 1]
         ELSE get_resource_calls
    /\ Logged(s, Entry("load_resource", <<addr, ty>>, resolver_ok,
                       load_resource(account_db, addr, ty, resolver_ok)))
    /\ UNCHANGED <<account_db, db_open, status, event_data, ret>>
    /\ UNCHANGED <<table_vars, tool_vars>>

do_load_module(s, id, resolver_ok) ==
    /\ CanRun(s)
    /\ Logged(s, Entry("load_module", id, resolver_ok, load_module(account_db, id, resolver_ok)))
    /\ UNCHANGED <<account_db, db_open, status, event_data, get_resource_calls, ret>>
    /\ UNCHANGED <<table_vars, tool_vars>>

do_exists_module(s, id, resolver_ok) ==
    /\ CanRun(s)
    /\ Logged(s, Entry("exists_module", id, resolver_ok,
                       exists_module(account_db, id, resolver_ok)))
    /\ UNCHANGED <<account_db, db_open, status, event_data, get_resource_calls, ret>>
    /\ UNCHANGED <<table_vars, tool_vars>>

\* db_ok: the write of the entry succeeds; otherwise the unwrap of line 353 panics
do_publish_module(s, id, blob, db_ok) ==
    /\ CanRun(s)
    /\ IF db_ok
       THEN /\ account_db' = publish_module(account_db, id, blob)
            /\ Logged(s, Entry("publish_module", <<id, blob>>, db_ok, Res("Ok", "unit")))
            /\ UNCHANGED <<db_open, status>>
       ELSE /\ Logged(s, Entry("publish_module", <<id, blob>>, db_ok, Res("panic", "unit")))
            /\ status' = [status EXCEPT ![s] = "panicked"]
            /\ db_open' = 0
            /\ UNCHANGED account_db
    /\ UNCHANGED <<event_data, get_resource_calls, ret>>
    /\ UNCHANGED <<table_vars, tool_vars>>

do_emit_event(s, ev) ==
    /\ CanRun(s)
    /\ Len(event_data[s]) < MaxEvents
    /\ event_data' = [event_data EXCEPT ![s] = emit_event(@, ev).events]
    /\ Logged(s, Entry("emit_event", ev, TRUE, emit_event(event_data[s], ev).res))
    /\ UNCHANGED <<account_db, db_open, status, get_resource_calls, ret>>
    /\ UNCHANGED <<table_vars, tool_vars>>

do_events(s) ==
    /\ CanRun(s)
    /\ Logged(s, Entry("events", "self", TRUE, Res("Ok", DataStore_events(event_data[s]))))
    /\ UNCHANGED <<account_db, db_open, status, event_data, get_resource_calls, ret>>
    /\ UNCHANGED <<table_vars, tool_vars>>

do_num_mutated_accounts(s, sender) ==
    /\ CanRun(s)
    /\ Logged(s, Entry("num_mutated_accounts", sender, TRUE,
                       Res("Ok", num_mutated_accounts(account_db, sender))))
    /\ UNCHANGED <<account_db, db_open, status, event_data, get_resource_calls, ret>>
    /\ UNCHANGED <<table_vars, tool_vars>>

\* into_effects consumes the session; the database handle is closed with it
do_into_effects(s) ==
    /\ CanRun(s)
    /\ Logged(s, Entry("into_effects", "self", TRUE, into_effects(account_db, event_data[s])))
    /\ status' = [status EXCEPT ![s] = "finished"]
    /\ db_open' = 0
    /\ UNCHANGED <<account_db, event_data, get_resource_calls, ret>>
    /\ UNCHANGED <<table_vars, tool_vars>>

Next ==
    \/ \E s \in Sessions : new_session(s)
    \/ \E s \in Sessions : drop_session(s)
    \/ \E s \in Sessions, i \in LoadResourceInputs : do_load_resource(s, i[1], i[2], i[3])
    \/ \E s \in Sessions, i \in ModuleInputs : do_load_module(s, i[1], i[2])
    \/ \E s \in Sessions, i \in ModuleInputs : do_exists_module(s, i[1], i[2])
    \/ \E s \in Sessions, i \in PublishInputs : do_publish_module(s, i[1], i[2], i[3])
    \/ \E s \in Sessions, ev \in EventArgs : do_emit_event(s, ev)
    \/ \E s \in Sessions : do_events(s)
    \/ \E s \in Sessions, sender \in {ONE, TWO} : do_num_mutated_accounts(s, sender)
    \/ \E s \in Sessions : do_into_effects(s)

Spec == Init /\ [][Next]_vars

\* the data cache with one input per operation beside the events: what the event
\* record goes through
NextEvents ==
    \/ \E s \in Sessions : new_session(s)
    \/ \E s \in Sessions : drop_session(s)
    \/ \E s \in Sessions : do_load_resource(s, ONE, "Coin", TRUE)
    \/ \E s \in Sessions : do_load_module(s, IdA, TRUE)
    \/ \E s \in Sessions : do_exists_module(s, IdA, TRUE)
    \/ \E s \in Sessions, id \in {IdA, IdQ} : do_publish_module(s, id, A0, TRUE)
    \/ \E s \in Sessions, ev \in EventArgs : do_emit_event(s, ev)
    \/ \E s \in Sessions : do_events(s)
    \/ \E s \in Sessions : do_num_mutated_accounts(s, ONE)
    \/ \E s \in Sessions : do_into_effects(s)

SpecEvents == Init /\ [][NextEvents]_vars

(***************************************************************************)
(* Properties of the data cache.                                           *)
(***************************************************************************)
Entries(s) == {log[s][i] : i \in 1..Len(log[s])}

\* the database a session would hold if it saw only its own publications up to step n
RECURSIVE OwnDb(_, _)
OwnDb(s, n) ==
    IF n = 0 THEN EmptyMap
    ELSE LET e == log[s][n]
         IN  IF e.op = "publish_module" /\ e.res.status = "Ok"
             THEN publish_module(OwnDb(s, n - 1), e.arg[1], e.arg[2])
             ELSE OwnDb(s, n - 1)

\* the modules a session has published up to step n: module id -> latest bytes
RECURSIVE Published(_, _)
Published(s, n) ==
    IF n = 0 THEN EmptyMap
    ELSE LET e == log[s][n]
         IN  IF e.op = "publish_module" /\ e.res.status = "Ok"
             THEN MapPut(Published(s, n - 1), e.arg[1], e.arg[2])
             ELSE Published(s, n - 1)

\* C1: load_resource(A, T) succeeds whenever the resolver answers and the bytes
\* deserialize, yielding the slot for (A, T) present-and-clean (bytes returned) or
\* empty (nothing returned); it fails only with an internal type error, a
\* resource-deserialization error or a storage error.
C1_LoadResourceSucceeds ==
    \A s \in Sessions : \A e \in Entries(s) :
        e.op = "load_resource" =>
            LET blob == RemoteResource(e.arg[1], e.arg[2])
            IN  /\ (IsStructType(e.arg[2]) /\ e.env
                      /\ (blob.some => simple_deserialize(blob.bytes).some))
                   => /\ e.res.status = "Ok"
                      /\ e.res.val = IF blob.some THEN "cached" ELSE "none"
                /\ e.res.status \in {"Ok", "INTERNAL_TYPE_ERROR",
                                     "FAILED_TO_DESERIALIZE_RESOURCE", "STORAGE_ERROR"}

\* C2: within one session, load_resource(A, T) triggers at most one remote
\* get_resource call for (A, T), however often it is called.
C2_AtMostOneFetch ==
    \A s \in Sessions : \A k \in DOMAIN get_resource_calls[s] : get_resource_calls[s][k] <= 1

\* C3: after publish_module(M, b) succeeded in a session, into_effects on that session
\* succeeds and its change set maps M's address and name to the last bytes published.
C3_EffectsHoldPublished ==
    \A s \in Sessions : \A n \in 1..Len(log[s]) :
        (log[s][n].op = "into_effects" /\ Published(s, n) # EmptyMap) =>
            /\ log[s][n].res.status = "Ok"
            /\ \A id \in DOMAIN Published(s, n) :
                 LET cs == log[s][n].res.val[1]
                 IN  /\ id[1] \in DOMAIN cs
                     /\ id[2] \in DOMAIN cs[id[1]].modules
                     /\ cs[id[1]].modules[id[2]] = Published(s, n)[id]

\* C4: several sessions can be alive at once over the same resolver, each with a
\* private cache: what a session reads depends on the remote state and on its own
\* publications only, never on what another session did.
C4_SessionsIsolated ==
    /\ \A s \in Sessions : status[s] = "panicked" => log[s] # <<>>
    /\ \A s \in Sessions : \A n \in 1..Len(log[s]) :
         LET e == log[s][n]
         IN  /\ e.op = "load_module" => e.res = load_module(OwnDb(s, n - 1), e.arg, e.env)
             /\ e.op = "exists_module" => e.res = exists_module(OwnDb(s, n - 1), e.arg, e.env)
             /\ e.op = "num_mutated_accounts"
                  => e.res.val = num_mutated_accounts(OwnDb(s, n - 1), e.arg)

\* a module id that session t published and that neither the remote state nor
\* session s (up to step n) holds
LeftBehind(t, s, n) ==
    {id \in DOMAIN Published(t, Len(log[t])) :
        id \notin DOMAIN RemoteModules /\ id \notin DOMAIN Published(s, n)}

\* C5: when a session fails or is dropped without handing over its change set, a
\* session created afterwards sees through load_module, exists_module and
\* into_effects no module the failed session published.
C5_NothingSurvivesDrop ==
    \A t \in Sessions : \A s \in Sessions :
        (t < s /\ status[t] \in {"dropped", "panicked"}) =>
            \A n \in 1..Len(log[s]) :
                LET e == log[s][n]
                IN  /\ (e.op = "load_module" /\ e.env /\ e.arg \in LeftBehind(t, s, n))
                       => e.res.status = "LINKER_ERROR"
                    /\ (e.op = "exists_module" /\ e.env /\ e.arg \in LeftBehind(t, s, n))
                       => e.res.val = FALSE
                    /\ (e.op = "into_effects" /\ e.res.status = "Ok")
                       => \A id \in LeftBehind(t, s, n) :
                            \A a \in DOMAIN e.res.val[1] :
                                id[2] \in DOMAIN e.res.val[1][a].modules
                                => e.res.val[1][a].modules[id[2]] # Published(t, Len(log[t]))[id]

\* C6: two sessions that run the same operations with the same inputs against the
\* same remote state get the same results, whatever ran before them.
SameInput(e, f) == e.op = f.op /\ e.arg = f.arg /\ e.env = f.env
C6_Replayable ==
    \A s \in Sessions : \A t \in Sessions :
        \A n \in 1..Len(log[s]) :
            (n <= Len(log[t]) /\ \A i \in 1..n : SameInput(log[s][i], log[t][i]))
            => log[s][n].res = log[t][n].res

\* C17: when the remote resolver fails during load_resource, load_module or
\* exists_module, the operation fails with STORAGE_ERROR, never with a status of another
\* class and never with a result that means the key is absent.  (A call answered from
\* the local entry does not reach the resolver and succeeds.)
C17_ResolverFailureIsStorageError ==
    \A s \in Sessions : \A e \in Entries(s) :
        (e.op \in {"load_resource", "load_module", "exists_module"} /\ ~e.env) =>
            \/ e.res.status = "STORAGE_ERROR"
            \/ e.op = "load_module" /\ e.res.status = "Ok"
            \/ e.op = "exists_module" /\ e.res = Res("Ok", TRUE)

\* C18: load_module(M) returns the bytes last published for M in this session if there
\* are any, otherwise the bytes the remote resolver holds for M, and fails with
\* LINKER_ERROR exactly when M is neither; exists_module(M) is true exactly when
\* load_module(M) returns bytes.
C18_LoadModuleLatestOrRemote ==
    \A s \in Sessions : \A n \in 1..Len(log[s]) :
        LET e == log[s][n]
            mine == Published(s, n - 1)
        IN  /\ (e.op = "load_module" /\ e.env) =>
                 e.res = IF e.arg \in DOMAIN mine THEN Res("Ok", mine[e.arg])
                         ELSE IF e.arg \in DOMAIN RemoteModules
                         THEN Res("Ok", RemoteModules[e.arg])
                         ELSE Res("LINKER_ERROR", Garbage)
            /\ (e.op = "exists_module" /\ e.env) =>
                 e.res = Res("Ok", e.arg \in DOMAIN mine \/ e.arg \in DOMAIN RemoteModules)

\* the events a session has emitted with success up to step n, in emission order
RECURSIVE Emitted(_, _)
Emitted(s, n) ==
    IF n = 0 THEN <<>>
    ELSE IF log[s][n].op = "emit_event" /\ log[s][n].res.status = "Ok"
    THEN Append(Emitted(s, n - 1), log[s][n].arg)
    ELSE Emitted(s, n - 1)

\* C20: the event record is append-only and ordered: at any time it holds exactly the
\* events emitted so far, each once, in emission order; events() returns them, and so
\* does the event list of into_effects when it returns one (each event with its type
\* tag and serialized value); no other operation changes the record.
C20_EventsInEmissionOrder ==
    \A s \in Sessions :
        /\ event_data[s] = Emitted(s, Len(log[s]))
        /\ \A n \in 1..Len(log[s]) :
             LET e == log[s][n]
                 em == Emitted(s, n)
             IN  /\ e.op = "events" => e.res.val = em
                 /\ (e.op = "into_effects" /\ e.res.status = "Ok") =>
                      /\ Len(e.res.val[2]) = Len(em)
                      /\ \A i \in 1..Len(em) :
                           e.res.val[2][i] = <<em[i][1], em[i][2], em[i][3], <<em[i][4]>>>>

\* two different events emitted, then handed over by into_effects in that order
C20_Witness ==
    \E s \in Sessions : \E n \in 1..Len(log[s]) :
        /\ log[s][n].op = "into_effects"
        /\ log[s][n].res.status = "Ok"
        /\ Len(Emitted(s, n)) = 2
        /\ Emitted(s, n)[1] # Emitted(s, n)[2]
        /\ Len(log[s][n].res.val[2]) = 2

(***************************************************************************)
(* VMRuntime::publish_module_bundle over the session's data store.         *)
(*                                                                         *)
(* Loader and Compatibility are not part of the sources at hand.  They are *)
(* modelled from the specification and from the linking argument written   *)
(* in publish_module_bundle (runtime.rs, lines 129 to 184): a dependency   *)
(* is looked up among the modules of the bundle verified so far, then in   *)
(* the data store; a dependency found in neither fails the linking; a      *)
(* module that reaches itself through its dependencies is rejected.        *)
(***************************************************************************)
AllModuleIds == {IdA, IdB, IdR, <<TWO, "A">>, IdQ}

\* CompiledModule::deserialize
Parses(blob) == blob.kind = "module"

\* Compatibility::check(old, new).is_fully_compatible(): nothing of the old public
\* interface is missing from the new one
is_fully_compatible(old_m, new_m) == old_m.iface \subseteq new_m.iface

\* Loader::load_module: the module stored under module_id, parsed
loader_load_module(db, module_id, resolver_ok) ==
    LET r == load_module(db, module_id, resolver_ok)
    IN  IF r.status # "Ok" THEN r
        ELSE IF ~Parses(r.val) THEN Res("CODE_DESERIALIZATION_ERROR", Garbage)
        ELSE r

\* a dependency: from the bundle's verified modules first, then from the data store
resolve_dependency(db, bundle_verified, module_id, resolver_ok) ==
    IF module_id \in DOMAIN bundle_verified THEN Res("Ok", bundle_verified[module_id])
    ELSE loader_load_module(db, module_id, resolver_ok)

RECURSIVE dependency_closure(_, _, _, _, _)
dependency_closure(db, bundle_verified, ids, resolver_ok, fuel) ==
    LET more == ids \cup UNION {resolve_dependency(db, bundle_verified, d, resolver_ok).val.deps :
                                  d \in ids}
    IN  IF fuel = 0 \/ more = ids THEN ids
        ELSE dependency_closure(db, bundle_verified, more, resolver_ok, fuel - 1)

\* Loader::verify_module_for_publication
verify_module_for_publication(db, bundle_verified, module, resolver_ok) ==
    LET all_deps == dependency_closure(db, bundle_verified, module.deps, resolver_ok,
                                       Cardinality(AllModuleIds))
        failed == {d \in all_deps :
                     resolve_dependency(db, bundle_verified, d, resolver_ok).status # "Ok"}
    IN  IF failed # {}
        THEN resolve_dependency(db, bundle_verified, CHOOSE d \in failed : TRUE,
                                resolver_ok).status
        ELSE IF self_id(module) \in all_deps THEN "CYCLIC_MODULE_DEPENDENCY"
        ELSE "Ok"

\* Loader::verify_module_bundle_for_publication: the modules in bundle order
RECURSIVE verify_module_bundle_for_publication(_, _, _, _)
verify_module_bundle_for_publication(db, bundle_verified, modules, resolver_ok) ==
    IF modules = <<>> THEN "Ok"
    ELSE LET st == verify_module_for_publication(db, bundle_verified, Head(modules), resolver_ok)
         IN  IF st # "Ok" THEN st
             ELSE verify_module_bundle_for_publication(db,
                      MapPut(bundle_verified, self_id(Head(modules)), Head(modules)),
                      Tail(modules), resolver_ok)

\* lines 108-127 without the compatibility check of lines 110-122
RECURSIVE check_bundle_modules_no_compat(_, _, _, _)
check_bundle_modules_no_compat(db, modules, bundle_unverified, resolver_ok) ==
    IF modules = <<>> THEN "Ok"
    ELSE LET module_id == self_id(Head(modules))
         IN  IF module_id \in bundle_unverified THEN "DUPLICATE_MODULE_NAME"
             ELSE check_bundle_modules_no_compat(db, Tail(modules),
                      bundle_unverified \cup {module_id}, resolver_ok)

\* lines 108-127 without the duplicate check of lines 123-126
RECURSIVE check_bundle_modules_no_duplicates(_, _, _, _)
check_bundle_modules_no_duplicates(db, modules, bundle_unverified, resolver_ok) ==
    IF modules = <<>> THEN "Ok"
    ELSE LET module == Head(modules)
             module_id == self_id(module)
             ex == exists_module(db, module_id, resolver_ok)
             old == loader_load_module(db, module_id, resolver_ok)
         IN  IF ex.status # "Ok" THEN ex.status
             ELSE IF ex.val /\ old.status # "Ok" THEN old.status
             ELSE IF ex.val /\ ~is_fully_compatible(old.val, module)
                  THEN "BACKWARD_INCOMPATIBLE_MODULE_UPDATE"
             ELSE check_bundle_modules_no_duplicates(db, Tail(modules),
                      bundle_unverified \cup {module_id}, resolver_ok)

\* lines 108-127 as two passes: the compatibility check of every module, then the
\* duplicate check of every module
check_bundle_modules_two_passes(db, modules, bundle_unverified, resolver_ok) ==
    LET compat == check_bundle_modules_no_duplicates(db, modules, bundle_unverified,
                                                     resolver_ok)
    IN  IF compat # "Ok" THEN compat
        ELSE check_bundle_modules_no_compat(db, modules, bundle_unverified, resolver_ok)

\* lines 108-127: per module, the compatibility check against an existing module of
\* the same id, then the insertion into bundle_unverified
RECURSIVE check_bundle_modules(_, _, _, _)
check_bundle_modules(db, modules, bundle_unverified, resolver_ok) ==
    IF modules = <<>> THEN "Ok"
    ELSE LET module == Head(modules)
             module_id == self_id(module)
             ex == exists_module(db, module_id, resolver_ok)
             old == loader_load_module(db, module_id, resolver_ok)
         IN  IF ex.status # "Ok" THEN ex.status
             ELSE IF ex.val /\ old.status # "Ok" THEN old.status
             ELSE IF ex.val /\ ~is_fully_compatible(old.val, module)
                  THEN "BACKWARD_INCOMPATIBLE_MODULE_UPDATE"
             ELSE IF module_id \in bundle_unverified THEN "DUPLICATE_MODULE_NAME"
             ELSE check_bundle_modules(db, Tail(modules), bundle_unverified \cup {module_id},
                                       resolver_ok)

Outcome(st, step, written, db) ==
    [res |-> Res(st, [step |-> step, written |-> written]), db |-> db]

\* lines 186-190: publish the modules in order.  fail_at is the position of the
\* module whose write to the database fails (0: none); publish_module unwraps the
\* failure, which panics out of the loop.  A publish_module that returned an error
\* instead would end the loop in the same way, with that error.
RECURSIVE publish_all_returning_error(_, _, _, _)
publish_all_returning_error(db, modules, fail_at, written) ==
    IF modules = <<>> THEN Outcome("Ok", 0, written, db)
    ELSE IF fail_at = Len(written) + 1 THEN Outcome("STORAGE_ERROR", 6, written, db)
    ELSE publish_all_returning_error(
             publish_module(db, self_id(Head(modules)), Head(modules)),
             Tail(modules), fail_at, Append(written, self_id(Head(modules))))

RECURSIVE publish_all(_, _, _, _)
publish_all(db, modules, fail_at, written) ==
    IF modules = <<>> THEN Outcome("Ok", 0, written, db)
    ELSE IF fail_at = Len(written) + 1 THEN Outcome("panic", 6, written, db)
    ELSE publish_all(publish_module(db, self_id(Head(modules)), Head(modules)),
                     Tail(modules), fail_at, Append(written, self_id(Head(modules))))

\* publish_module_bundle with the verification of step 5 left out
publish_module_bundle_unverified(db, modules, sender, resolver_ok, fail_at) ==
    IF \E i \in 1..Len(modules) : ~Parses(modules[i])
    THEN Outcome("CODE_DESERIALIZATION_ERROR", 1, <<>>, db)
    ELSE IF \E i \in 1..Len(modules) : modules[i].addr # sender
    THEN Outcome("MODULE_ADDRESS_DOES_NOT_MATCH_SENDER", 2, <<>>, db)
    ELSE LET compat == check_bundle_modules(db, modules, {}, resolver_ok)
         IN  IF compat # "Ok"
             THEN Outcome(compat, IF compat = "DUPLICATE_MODULE_NAME" THEN 4 ELSE 3, <<>>, db)
             ELSE publish_all(db, modules, fail_at, <<>>)

\* publish_module_bundle writing the modules before the verification of step 5
publish_module_bundle_write_first(db, modules, sender, resolver_ok, fail_at) ==
    IF \E i \in 1..Len(modules) : ~Parses(modules[i])
    THEN Outcome("CODE_DESERIALIZATION_ERROR", 1, <<>>, db)
    ELSE IF \E i \in 1..Len(modules) : modules[i].addr # sender
    THEN Outcome("MODULE_ADDRESS_DOES_NOT_MATCH_SENDER", 2, <<>>, db)
    ELSE LET compat == check_bundle_modules(db, modules, {}, resolver_ok)
             verified == verify_module_bundle_for_publication(db, EmptyMap, modules, resolver_ok)
             done == publish_all(db, modules, fail_at, <<>>)
         IN  IF compat # "Ok"
             THEN Outcome(compat, IF compat = "DUPLICATE_MODULE_NAME" THEN 4 ELSE 3, <<>>, db)
             ELSE IF done.res.status = "Ok" /\ verified # "Ok"
             THEN Outcome(verified, 5, done.res.val.written, done.db)
             ELSE done

\* publish_module_bundle comparing only the first module's address with the sender
publish_module_bundle_first_address(db, modules, sender, resolver_ok, fail_at) ==
    IF \E i \in 1..Len(modules) : ~Parses(modules[i])
    THEN Outcome("CODE_DESERIALIZATION_ERROR", 1, <<>>, db)
    ELSE IF modules[1].addr # sender
    THEN Outcome("MODULE_ADDRESS_DOES_NOT_MATCH_SENDER", 2, <<>>, db)
    ELSE LET compat == check_bundle_modules(db, modules, {}, resolver_ok)
             verified == verify_module_bundle_for_publication(db, EmptyMap, modules, resolver_ok)
         IN  IF compat # "Ok"
             THEN Outcome(compat, IF compat = "DUPLICATE_MODULE_NAME" THEN 4 ELSE 3, <<>>, db)
             ELSE IF verified # "Ok" THEN Outcome(verified, 5, <<>>, db)
             ELSE publish_all(db, modules, fail_at, <<>>)

publish_module_bundle(db, modules, sender, resolver_ok, fail_at) ==
    IF \E i \in 1..Len(modules) : ~Parses(modules[i])
    THEN Outcome("CODE_DESERIALIZATION_ERROR", 1, <<>>, db)
    ELSE IF \E i \in 1..Len(modules) : modules[i].addr # sender
    THEN Outcome("MODULE_ADDRESS_DOES_NOT_MATCH_SENDER", 2, <<>>, db)
    ELSE LET compat == check_bundle_modules(db, modules, {}, resolver_ok)
             verified == verify_module_bundle_for_publication(db, EmptyMap, modules, resolver_ok)
         IN  IF compat # "Ok"
             THEN Outcome(compat, IF compat = "DUPLICATE_MODULE_NAME" THEN 4 ELSE 3, <<>>, db)
             ELSE IF verified # "Ok" THEN Outcome(verified, 5, <<>>, db)
             ELSE publish_all(db, modules, fail_at, <<>>)

(***************************************************************************)
(* The state machine of module publication: sessions publishing bundles.   *)
(***************************************************************************)
BundleBlobs == {A0, A_B, A_less, B_A, R_less, A_at_TWO, Garbage}
Bundles == UNION {[1..n -> BundleBlobs] : n \in 1..MaxBatch}
BundleSenders == {ONE}
\* the environment of a call: the remote resolver failing, or the database write of
\* the fail_at-th module failing (0: none)
BundleEnvs(modules) == {<<FALSE, 0>>} \cup {<<TRUE, k>> : k \in 0..Len(modules)}

\* A session stands for one transaction and publishes one bundle; later bundles come
\* from later sessions, over the same database.
do_publish_module_bundle(s) ==
    /\ status[s] = "alive"
    /\ ret.op = "none"
    /\ \E modules \in Bundles, sender \in BundleSenders :
         \E env \in BundleEnvs(modules) :
           \E out \in {publish_module_bundle(account_db, modules, sender, env[1], env[2])} :
              /\ account_db' = out.db
              /\ ret' = [op |-> "publish_module_bundle", session |-> s,
                         arg |-> <<modules, sender>>, env |-> env,
                         res |-> out.res, before |-> account_db]
              /\ IF out.res.status = "panic"
                 THEN /\ status' = [status EXCEPT ![s] = "panicked"]
                      /\ db_open' = 0
                 ELSE UNCHANGED <<status, db_open>>
    /\ UNCHANGED <<event_data, get_resource_calls, log>>
    /\ UNCHANGED <<table_vars, tool_vars>>

NextBundle ==
    \/ \E s \in Sessions : new_session(s)
    \/ \E s \in Sessions : drop_session(s)
    \/ \E s \in Sessions : do_publish_module_bundle(s)

SpecBundle == Init /\ [][NextBundle]_vars

(***************************************************************************)
(* Properties of module publication.                                       *)
(***************************************************************************)
IsBundle == ret.op = "publish_module_bundle"
Batch == ret.arg[1]
BatchIds == [i \in 1..Len(Batch) |-> self_id(Batch[i])]
Written == ret.res.val.written
Untouched == Written = <<>> /\ account_db = ret.before
Stored(db, blob) ==
    /\ load_module(db, self_id(blob), TRUE).status = "Ok"
    /\ load_module(db, self_id(blob), TRUE).val = blob
Absent(db, module_id) == ~exists_module(db, module_id, TRUE).val

\* C7: when publish_module_bundle fails in one of its steps 1 to 5, no publish_module
\* call has been made and the data store holds exactly what it held before the call.
C7_FailedBundleWritesNothing ==
    (IsBundle /\ ret.res.val.step \in 1..5) => Untouched

\* a two-module bundle whose first module verifies and whose second fails step 5
C7_Witness ==
    /\ IsBundle
    /\ ret.res.val.step = 5
    /\ Len(Batch) = 2
    /\ verify_module_for_publication(ret.before, EmptyMap, Batch[1], ret.env[1]) = "Ok"
    /\ Untouched

IsDepPair(dep, user) ==
    /\ Parses(dep) /\ Parses(user)
    /\ dep.addr = user.addr
    /\ self_id(dep) # self_id(user)
    /\ dep.deps = {}
    /\ user.deps = {self_id(dep)}
    /\ dep.iface # {} /\ user.iface # {}

\* a bundle of two modules sent by their owner, neither in storage, nothing failing
\* in the environment
TwoNewModules ==
    /\ IsBundle
    /\ Len(Batch) = 2
    /\ ret.arg[2] = Batch[1].addr
    /\ ret.env = <<TRUE, 0>>
    /\ Absent(ret.before, self_id(Batch[1]))
    /\ Absent(ret.before, self_id(Batch[2]))

DepsAfter(db, modules, module_id) ==
    IF \E i \in 1..Len(modules) : self_id(modules[i]) = module_id
    THEN UNION {modules[i].deps : i \in {j \in 1..Len(modules) : self_id(modules[j]) = module_id}}
    ELSE IF Parses(load_module(db, module_id, TRUE).val)
    THEN load_module(db, module_id, TRUE).val.deps
    ELSE {}

RECURSIVE ReachAfter(_, _, _, _)
ReachAfter(db, modules, ids, fuel) ==
    LET more == ids \cup UNION {DepsAfter(db, modules, d) : d \in ids}
    IN  IF fuel = 0 \/ more = ids THEN ids
        ELSE ReachAfter(db, modules, more, fuel - 1)

\* some module of the bundle would depend on itself, through modules of the bundle
\* or of storage
HasCycle(db, modules) ==
    /\ \A i \in 1..Len(modules) : Parses(modules[i])
    /\ \E i \in 1..Len(modules) :
         self_id(modules[i]) \in
             ReachAfter(db, modules, modules[i].deps, Cardinality(AllModuleIds))

AllParse == \A i \in 1..Len(Batch) : Parses(Batch[i])
StepsOneTwoPass == AllParse /\ \A i \in 1..Len(Batch) : Batch[i].addr = ret.arg[2]

\* C11: if a module of the batch declares a self-address different from the sender,
\* publish_module_bundle rejects the whole batch with
\* MODULE_ADDRESS_DOES_NOT_MATCH_SENDER and leaves storage unchanged, whatever the
\* other modules of the batch are.
C11_AddressMismatchRejectsBatch ==
    (IsBundle /\ AllParse /\ \E i \in 1..Len(Batch) : Batch[i].addr # ret.arg[2]) =>
        /\ ret.res.status = "MODULE_ADDRESS_DOES_NOT_MATCH_SENDER"
        /\ Untouched

\* a valid module of the sender followed by a module of another address
C11_Witness ==
    /\ IsBundle
    /\ Len(Batch) = 2
    /\ AllParse
    /\ Batch[1].addr = ret.arg[2]
    /\ verify_module_for_publication(ret.before, EmptyMap, Batch[1], TRUE) = "Ok"
    /\ Batch[2].addr # ret.arg[2]
    /\ ret.res.status = "MODULE_ADDRESS_DOES_NOT_MATCH_SENDER"
    /\ Untouched

\* the i-th module of the batch has its identity in storage before the call
Existing(i) == exists_module(ret.before, BatchIds[i], ret.env[1]) = Res("Ok", TRUE)
OldOf(i) == loader_load_module(ret.before, BatchIds[i], ret.env[1])
\* ... and is not fully compatible with the module stored under that identity
Incompatible(i) ==
    /\ Existing(i)
    /\ OldOf(i).status = "Ok"
    /\ ~is_fully_compatible(OldOf(i).val, Batch[i])
HasDuplicate ==
    \E i \in 1..Len(Batch) : \E j \in 1..Len(Batch) : i < j /\ BatchIds[i] = BatchIds[j]

C13_DuplicateRejectsBatch ==
    (IsBundle /\ AllParse /\ HasDuplicate) =>
        /\ ret.res.val.step \in 1..4
        /\ Untouched
        /\ (StepsOneTwoPass /\ ret.env[1] /\ \A i \in 1..Len(Batch) : ~Incompatible(i))
              => ret.res.status = "DUPLICATE_MODULE_NAME"

\* two different modules of one identity that storage does not hold
C13_Witness ==
    /\ IsBundle
    /\ StepsOneTwoPass
    /\ Len(Batch) = 2
    /\ BatchIds[1] = BatchIds[2]
    /\ Batch[1] # Batch[2]
    /\ ~Existing(1)
    /\ ret.env[1]
    /\ ret.res.status = "DUPLICATE_MODULE_NAME"
    /\ Untouched

(***************************************************************************)
(* Argument marshaling and the execution entry points of VMRuntime         *)
(* (runtime.rs, lines 193 to 629).  Loader and Interpreter are external:   *)
(* the outcome of loading the callee and the behaviour of the interpreter  *)
(* are inputs of a call.                                                   *)
(***************************************************************************)
MaxParams == 3
MaxSenders == 2

VERSION_1 == 1
Versions == {VERSION_1, VERSION_1 + 1}

\* Type::Signer, Type::Reference(Signer), Type::U64
ParamTypes == {"signer", "&signer", "u64"}
is_signer_reference(ty) == ty = "&signer"

\* values of the VM
Value_signer(addr) == [kind |-> "signer", v |-> addr]
Value_signer_reference(addr) == [kind |-> "signer_reference", v |-> addr]
Value_u64(n) == [kind |-> "u64", v |-> <<n>>]

RECURSIVE LittleEndian(_)
LittleEndian(bytes) ==
    IF bytes = <<>> THEN 0 ELSE Head(bytes) + 256 * LittleEndian(Tail(bytes))

\* Value::simple_deserialize(blob, layout): a u64 is 8 bytes, little endian; a signer
\* is the AddrLen bytes of its address
Value_simple_deserialize(blob, layout) ==
    IF layout = "u64" /\ Len(blob) = 8 THEN Some(Value_u64(LittleEndian(blob)))
    ELSE IF layout = "signer" /\ Len(blob) = AddrLen THEN Some(Value_signer(blob))
    ELSE None

\* Value::simple_serialize(layout): None when the value does not have the layout
Value_simple_serialize(val, layout) ==
    IF layout = "u64" /\ val.kind = "u64"
    THEN Some([i \in 1..8 |-> IF i = 1 THEN val.v[1] % 256
                              ELSE IF i = 2 THEN (val.v[1] \div 256) % 256 ELSE 0])
    ELSE IF layout = "signer" /\ val.kind = "signer" THEN Some(val.v)
    ELSE None

\* VMRuntime::deserialize_value (lines 193-216)
runtime_deserialize_value(ty, arg) ==
    LET layout == type_to_type_layout(ty)
    IN  IF ~layout.some THEN Res("INVALID_PARAM_TYPE_FOR_DESERIALIZATION", <<>>)
        ELSE LET val == Value_simple_deserialize(arg, layout.bytes)
             IN  IF val.some THEN Res("Ok", <<val.bytes>>)
                 ELSE Res("FAILED_TO_DESERIALIZE_ARGUMENT", <<>>)

\* VMRuntime::deserialize_arg (lines 218-236): a &signer is made from signer-shaped data
deserialize_arg(ty, arg) ==
    IF is_signer_reference(ty)
    THEN IF Len(arg) = AddrLen THEN Res("Ok", <<Value_signer_reference(arg)>>)
         ELSE Res("FAILED_TO_DESERIALIZE_ARGUMENT", <<>>)
    ELSE runtime_deserialize_value(ty, arg)

\* VMRuntime::deserialize_args (lines 238-265)
RECURSIVE deserialize_each(_, _)
deserialize_each(tys, args) ==
    IF tys = <<>> THEN Res("Ok", <<>>)
    ELSE LET first == deserialize_arg(Head(tys), Head(args))
         IN  IF first.status # "Ok" THEN first
             ELSE LET rest == deserialize_each(Tail(tys), Tail(args))
                  IN  IF rest.status # "Ok" THEN rest
                      ELSE Res("Ok", first.val \o rest.val)

deserialize_args(tys, args) ==
    IF Len(tys) # Len(args) THEN Res("NUMBER_OF_ARGUMENTS_MISMATCH", <<>>)
    ELSE deserialize_each(tys, args)

\* number_of_signer_params (lines 274-286)
is_signer(file_format_version, ty) ==
    IF file_format_version <= VERSION_1 THEN ty = "&signer" ELSE ty = "signer"

\* number_of_signer_params counting both forms of a signer parameter in every version
number_of_signer_params_any_form(file_format_version, tys) ==
    IF \E i \in 1..Len(tys) : tys[i] \notin {"signer", "&signer"}
    THEN (CHOOSE i \in 1..Len(tys) :
             /\ tys[i] \notin {"signer", "&signer"}
             /\ \A j \in 1..(i - 1) : tys[j] \in {"signer", "&signer"}) - 1
    ELSE Len(tys)

number_of_signer_params(file_format_version, tys) ==
    IF \E i \in 1..Len(tys) : ~is_signer(file_format_version, tys[i])
    THEN (CHOOSE i \in 1..Len(tys) :
             /\ ~is_signer(file_format_version, tys[i])
             /\ \A j \in 1..(i - 1) : is_signer(file_format_version, tys[j])) - 1
    ELSE Len(tys)

make_signer(file_format_version, addr) ==
    IF file_format_version <= VERSION_1 THEN Value_signer_reference(addr)
    ELSE Value_signer(addr)

\* create_signers_and_arguments without the comparison of lines 297-305: the signer
\* parameters are filled from as many senders as there are
create_signers_and_arguments_unchecked(file_format_version, tys, senders, args) ==
    LET n_signer_params == number_of_signer_params(file_format_version, tys)
    IN  IF n_signer_params = 0 THEN deserialize_args(tys, args)
        ELSE LET n_signers == IF Len(senders) < Len(tys) THEN Len(senders) ELSE Len(tys)
                 rest == deserialize_args(SubSeq(tys, n_signers + 1, Len(tys)), args)
             IN  IF rest.status # "Ok" THEN rest
                 ELSE Res("Ok", [i \in 1..n_signers |->
                                    make_signer(file_format_version, senders[i])] \o rest.val)

\* VMRuntime::create_signers_and_arguments (lines 267-317)
create_signers_and_arguments(file_format_version, tys, senders, args) ==
    LET n_signer_params == number_of_signer_params(file_format_version, tys)
    IN  IF n_signer_params = 0 THEN deserialize_args(tys, args)
        ELSE LET n_signers == Len(senders)
             IN  IF n_signer_params # n_signers
                 THEN Res("NUMBER_OF_SIGNER_ARGUMENTS_MISMATCH", <<>>)
                 ELSE LET rest == deserialize_args(SubSeq(tys, n_signers + 1, Len(tys)), args)
                      IN  IF rest.status # "Ok" THEN rest
                          ELSE Res("Ok", [i \in 1..n_signers |->
                                             make_signer(file_format_version, senders[i])]
                                         \o rest.val)

(***************************************************************************)
(* The entry points.  A callee is what the loader hands back: the file     *)
(* format version of its module, its parameter types, its return types.    *)
(* An interpreter run ends with a status and return values, and may have   *)
(* emitted an event into the data store.                                   *)
(***************************************************************************)
Callee(v, p, r) == [version |-> v, params |-> p, returns |-> r]
Interp(st, rv, em) == [status |-> st, return_vals |-> rv, emits |-> em]
InterpEvent == <<"guid", 1, "Coin", 7>>

\* the outcome of an entry point: its status, whether the interpreter was invoked and
\* with which arguments, the serialized return values, the events of the data store
Call(st, invoked, vals, out, events) ==
    [res |-> Res(st, [invoked |-> invoked, vals |-> vals, out |-> out]), events |-> events]

\* Interpreter::entrypoint(func, ty_args, args, data_store, ..)
Interpreter_entrypoint(events, args, interp) ==
    [status |-> interp.status,
     return_vals |-> interp.return_vals,
     events |-> IF interp.emits THEN Append(events, InterpEvent) ELSE events]

\* execute_script calling the interpreter before it marshals the arguments
execute_script_interpreter_first(events, callee, load_ok, args, senders, interp) ==
    IF ~load_ok THEN Call("CODE_DESERIALIZATION_ERROR", FALSE, <<>>, <<>>, events)
    ELSE LET r == Interpreter_entrypoint(events, <<>>, interp)
             signers_and_args ==
                 create_signers_and_arguments(callee.version, callee.params, senders, args)
         IN  IF signers_and_args.status # "Ok"
             THEN Call(signers_and_args.status, TRUE, <<>>, <<>>, r.events)
             ELSE IF r.status # "Ok" THEN Call(r.status, TRUE, signers_and_args.val, <<>>, r.events)
             ELSE IF r.return_vals # <<>>
             THEN Call("UNKNOWN_INVARIANT_VIOLATION_ERROR", TRUE, signers_and_args.val, <<>>,
                       r.events)
             ELSE Call("Ok", TRUE, signers_and_args.val, <<>>, r.events)

\* VMRuntime::execute_script (lines 320-356)
execute_script(events, callee, load_ok, args, senders, interp) ==
    IF ~load_ok THEN Call("CODE_DESERIALIZATION_ERROR", FALSE, <<>>, <<>>, events)
    ELSE LET signers_and_args ==
                 create_signers_and_arguments(callee.version, callee.params, senders, args)
         IN  IF signers_and_args.status # "Ok"
             THEN Call(signers_and_args.status, FALSE, <<>>, <<>>, events)
             ELSE LET r == Interpreter_entrypoint(events, signers_and_args.val, interp)
                  IN  IF r.status # "Ok"
                      THEN Call(r.status, TRUE, signers_and_args.val, <<>>, r.events)
                      ELSE IF r.return_vals # <<>>
                      THEN Call("UNKNOWN_INVARIANT_VIOLATION_ERROR", TRUE,
                                signers_and_args.val, <<>>, r.events)
                      ELSE Call("Ok", TRUE, signers_and_args.val, <<>>, r.events)

\* execute_function_impl reporting a return-arity mismatch as a type error
execute_function_impl_arity_as_type_error(events, callee, load_ok, made_args, interp) ==
    IF ~load_ok THEN Call("FUNCTION_RESOLUTION_FAILURE", FALSE, <<>>, <<>>, events)
    ELSE IF \E i \in 1..Len(callee.returns) : ~type_to_type_layout(callee.returns[i]).some
    THEN Call("INTERNAL_TYPE_ERROR", FALSE, <<>>, <<>>, events)
    ELSE IF made_args.status # "Ok" THEN Call(made_args.status, FALSE, <<>>, <<>>, events)
    ELSE LET r == Interpreter_entrypoint(events, made_args.val, interp)
             ser(i) == Value_simple_serialize(r.return_vals[i],
                                              type_to_type_layout(callee.returns[i]).bytes)
         IN  IF r.status # "Ok" THEN Call(r.status, TRUE, made_args.val, <<>>, r.events)
             ELSE IF Len(callee.returns) # Len(r.return_vals)
             THEN Call("INTERNAL_TYPE_ERROR", TRUE, made_args.val, <<>>, r.events)
             ELSE IF \E i \in 1..Len(r.return_vals) : ~ser(i).some
             THEN Call("INTERNAL_TYPE_ERROR", TRUE, made_args.val, <<>>, r.events)
             ELSE Call("Ok", TRUE, made_args.val,
                       [i \in 1..Len(r.return_vals) |-> ser(i).bytes], r.events)

\* VMRuntime::execute_function_impl (lines 499-567); made_args is what make_args
\* yields for the callee's parameters
execute_function_impl(events, callee, load_ok, made_args, interp) ==
    IF ~load_ok THEN Call("FUNCTION_RESOLUTION_FAILURE", FALSE, <<>>, <<>>, events)
    ELSE IF \E i \in 1..Len(callee.returns) : ~type_to_type_layout(callee.returns[i]).some
    THEN Call("INTERNAL_TYPE_ERROR", FALSE, <<>>, <<>>, events)
    ELSE IF made_args.status # "Ok" THEN Call(made_args.status, FALSE, <<>>, <<>>, events)
    ELSE LET r == Interpreter_entrypoint(events, made_args.val, interp)
             ser(i) == Value_simple_serialize(r.return_vals[i],
                                              type_to_type_layout(callee.returns[i]).bytes)
         IN  IF r.status # "Ok" THEN Call(r.status, TRUE, made_args.val, <<>>, r.events)
             ELSE IF Len(callee.returns) # Len(r.return_vals)
             THEN Call("UNKNOWN_INVARIANT_VIOLATION_ERROR", TRUE, made_args.val, <<>>, r.events)
             ELSE IF \E i \in 1..Len(r.return_vals) : ~ser(i).some
             THEN Call("INTERNAL_TYPE_ERROR", TRUE, made_args.val, <<>>, r.events)
             ELSE Call("Ok", TRUE, made_args.val,
                       [i \in 1..Len(r.return_vals) |-> ser(i).bytes], r.events)

\* VMRuntime::execute_script_function (lines 570-608)
execute_script_function(events, callee, load_ok, args, senders, interp) ==
    LET c == execute_function_impl(events, callee, load_ok,
                 create_signers_and_arguments(callee.version, callee.params, senders, args),
                 interp)
    IN  IF c.res.status = "Ok" /\ c.res.val.out # <<>>
        THEN Call("UNKNOWN_INVARIANT_VIOLATION_ERROR", TRUE, c.res.val.vals, <<>>, c.events)
        ELSE c

\* VMRuntime::execute_function (lines 611-629): no signer convention
execute_function(events, callee, load_ok, args, interp) ==
    execute_function_impl(events, callee, load_ok, deserialize_args(callee.params, args), interp)

(***************************************************************************)
(* The state machine of the entry points: a session runs one call.         *)
(***************************************************************************)
ParamLists == UNION {[1..n -> ParamTypes] : n \in 0..MaxParams}
Callees ==
    {Callee(vp[1], vp[2], <<>>) : vp \in Versions \X ParamLists}
    \cup {Callee(VERSION_1 + 1, <<"u64">>, r) : r \in {<<"u64">>, <<"&u64">>}}
\* the senders of a transaction, in order: 0x2, 0x1, 0x2, ..
SenderLists == {[i \in 1..n |-> IF i % 2 = 1 THEN TWO ELSE ONE] : n \in 0..MaxSenders}
U64Blob == <<5, 0, 0, 0, 0, 0, 0, 0>>
SignerBlob == ONE
ArgLists == UNION {[1..n -> {U64Blob, SignerBlob}] : n \in 0..MaxParams}
Interp0 == Interp("Ok", <<>>, FALSE)
Interps ==
    {Interp0, Interp("Ok", <<>>, TRUE), Interp("Ok", <<Value_u64(7)>>, FALSE),
     Interp("Ok", <<Value_signer(ONE)>>, FALSE), Interp("ABORTED", <<>>, TRUE)}
\* the environment of a call: the loader failing, or the interpreter's behaviour when
\* the call gets as far as the interpreter
CallEnvs(invoked) ==
    {<<FALSE, Interp0>>} \cup {<<TRUE, i>> : i \in IF invoked THEN Interps ELSE {Interp0}}

Called(s, op, callee, senders, args, env, out) ==
    /\ ret' = [op |-> op, session |-> s, arg |-> <<callee, senders, args>>, env |-> env,
               res |-> out.res, before |-> account_db, events_before |-> event_data[s]]
    /\ event_data' = [event_data EXCEPT ![s] = out.events]
    /\ UNCHANGED <<account_db, db_open, status, get_resource_calls, log>>
    /\ UNCHANGED <<table_vars, tool_vars>>

do_execute_script(s) ==
    /\ status[s] = "alive"
    /\ ret.op = "none"
    /\ \E callee \in Callees, senders \in SenderLists, args \in ArgLists :
         /\ callee.returns = <<>>
         /\ \E env \in CallEnvs(execute_script(event_data[s], callee, TRUE, args, senders,
                                               Interp0).res.val.invoked) :
              \E out \in {execute_script(event_data[s], callee, env[1], args, senders, env[2])} :
                 Called(s, "execute_script", callee, senders, args, env, out)

\* a script function with return values is refused when it is loaded (lines 592-594)
do_execute_script_function(s) ==
    /\ status[s] = "alive"
    /\ ret.op = "none"
    /\ \E callee \in Callees, senders \in SenderLists, args \in ArgLists :
         \E env \in CallEnvs(execute_script_function(event_data[s], callee, TRUE, args, senders,
                                                     Interp0).res.val.invoked) :
           /\ callee.returns # <<>> => ~env[1]
           /\ \E out \in {execute_script_function(event_data[s], callee, env[1], args, senders,
                                                  env[2])} :
                 Called(s, "execute_script_function", callee, senders, args, env, out)

do_execute_function(s) ==
    /\ status[s] = "alive"
    /\ ret.op = "none"
    /\ \E callee \in Callees, args \in ArgLists :
         \E env \in CallEnvs(execute_function(event_data[s], callee, TRUE, args,
                                              Interp0).res.val.invoked) :
           \E out \in {execute_function(event_data[s], callee, env[1], args, env[2])} :
              Called(s, "execute_function", callee, <<>>, args, env, out)

NextArgs ==
    \/ \E s \in Sessions : new_session(s)
    \/ \E s \in Sessions : do_execute_script(s)
    \/ \E s \in Sessions : do_execute_script_function(s)
    \/ \E s \in Sessions : do_execute_function(s)

SpecArgs == Init /\ [][NextArgs]_vars

(***************************************************************************)
(* Properties of argument marshaling.                                      *)
(***************************************************************************)
\* a script or script-function call whose callee was loaded: marshaling takes place
SignerCall ==
    /\ ret.op \in {"execute_script", "execute_script_function"}
    /\ ret.env[1]
CalleeOf == ret.arg[1]
SendersOf == ret.arg[2]
ArgsOf == ret.arg[3]
Invoked == ret.res.val.invoked
ValsOf == ret.res.val.vals

\* the number of leading parameters whose type is one of forms
LeadingCount(tys, forms) ==
    Cardinality({i \in 1..Len(tys) : \A j \in 1..i : tys[j] \in forms})
\* the form of a signer parameter in a module of file format version v
SignerForm(v) == IF v <= VERSION_1 THEN "&signer" ELSE "signer"
SignerCount == LeadingCount(CalleeOf.params, {SignerForm(CalleeOf.version)})
Marshaled ==
    create_signers_and_arguments(CalleeOf.version, CalleeOf.params, SendersOf, ArgsOf)

\* C14 as stated: marshaling fails with NUMBER_OF_SIGNER_ARGUMENTS_MISMATCH whenever the
\* number of leading signer parameters differs from the number of senders, a callee
\* without signer parameter that is given senders included.
C14_MismatchAlwaysRejected ==
    (SignerCall /\ SignerCount # Len(SendersOf)) =>
        ret.res.status = "NUMBER_OF_SIGNER_ARGUMENTS_MISMATCH"

\* C14 as amended: marshaling fails with NUMBER_OF_SIGNER_ARGUMENTS_MISMATCH exactly
\* when the number of leading signer parameters is not zero and differs from the number
\* of senders; a callee without signer parameter accepts any number of senders and
\* does not use them.
C14_MismatchRejectedUnlessNoSigner ==
    SignerCall =>
        /\ ret.res.status = "NUMBER_OF_SIGNER_ARGUMENTS_MISMATCH"
             <=> (SignerCount # 0 /\ SignerCount # Len(SendersOf))
        /\ ret.res.status = "NUMBER_OF_SIGNER_ARGUMENTS_MISMATCH" => ~Invoked
        /\ SignerCount = 0 =>
             Marshaled = create_signers_and_arguments(CalleeOf.version, CalleeOf.params,
                                                      <<>>, ArgsOf)

\* a callee without signer parameter, given senders, whose call goes through
C14_Witness ==
    /\ SignerCall
    /\ SignerCount = 0
    /\ Len(SendersOf) >= 1
    /\ Len(CalleeOf.params) >= 1
    /\ Invoked
    /\ ret.res.status = "Ok"

\* C15: in execute_script and execute_script_function the arguments are marshaled
\* before the interpreter is invoked: when marshaling fails the call returns the
\* marshaling error, the interpreter has not been invoked and the data store is as it
\* was; when the interpreter is invoked it receives the marshaled arguments.
C15_MarshalBeforeInterpreter ==
    SignerCall =>
        /\ Marshaled.status # "Ok" =>
             /\ ret.res.status = Marshaled.status
             /\ ~Invoked
             /\ event_data[ret.session] = ret.events_before
             /\ account_db = ret.before
        /\ Invoked => (Marshaled.status = "Ok" /\ ValsOf = Marshaled.val)

\* a callee declaring two signer parameters, called with one sender
C15_Witness ==
    /\ SignerCall
    /\ SignerCount = 2
    /\ Len(SendersOf) = 1
    /\ ret.res.status = "NUMBER_OF_SIGNER_ARGUMENTS_MISMATCH"
    /\ ~Invoked
    /\ event_data[ret.session] = ret.events_before

\* the value made for sender addr is a signer, or a reference to one
IsSignerValueOf(val, addr) == val.kind \in {"signer", "signer_reference"} /\ val.v = addr

\* C16 as stated: the signer parameters are the leading parameters of type signer or
\* reference to signer; on success there is one value per parameter, the first ones
\* the signers of the senders in order, the others the arguments deserialized against
\* the remaining parameter types in order.
C16_SignersOfEitherForm ==
    (SignerCall /\ Invoked) =>
        LET k == LeadingCount(CalleeOf.params, {"signer", "&signer"})
        IN  /\ Len(ValsOf) = Len(CalleeOf.params)
            /\ \A i \in 1..k : i \in DOMAIN SendersOf /\ IsSignerValueOf(ValsOf[i], SendersOf[i])
            /\ \A i \in (k + 1)..Len(CalleeOf.params) :
                 /\ (i - k) \in DOMAIN ArgsOf
                 /\ <<ValsOf[i]>> = deserialize_arg(CalleeOf.params[i], ArgsOf[i - k]).val

\* C16 as amended: the signer parameters are the leading parameters of the signer form
\* of the callee's file format version (reference to signer up to version 1, signer
\* after it); on success there is one value per parameter; when there are signer
\* parameters the first values are the signers of the senders in order (references up
\* to version 1) and the others are the arguments deserialized against the remaining
\* parameter types in order; when there are none, every value is a deserialized
\* argument and the senders are not used.
C16_SignersOfVersionForm ==
    (SignerCall /\ Invoked) =>
        LET k == SignerCount
        IN  /\ Len(ValsOf) = Len(CalleeOf.params)
            /\ k > 0 => Len(SendersOf) = k
            /\ \A i \in 1..k :
                 /\ ValsOf[i].v = SendersOf[i]
                 /\ ValsOf[i].kind = IF CalleeOf.version <= VERSION_1 THEN "signer_reference"
                                     ELSE "signer"
            /\ Len(ArgsOf) = Len(CalleeOf.params) - k
            /\ \A i \in (k + 1)..Len(CalleeOf.params) :
                 <<ValsOf[i]>> = deserialize_arg(CalleeOf.params[i], ArgsOf[i - k]).val

\* two signers made from two senders in order, then a deserialized u64
C16_Witness ==
    /\ SignerCall
    /\ Invoked
    /\ SignerCount = 2
    /\ ValsOf = <<Value_signer(TWO), Value_signer(ONE), Value_u64(5)>>
    /\ SendersOf = <<TWO, ONE>>
    /\ ArgsOf = <<U64Blob>>

(***************************************************************************)
(* The table extension (language/extensions/move-table-extension/src/      *)
(* lib.rs): the NativeTableContext of one session, its TableData, and the  *)
(* natives of the Table module.                                            *)
(***************************************************************************)
MaxTableOps == 3

\* sub status codes of the table aborts: unique_sub_status_code(0), (1), (2)
ALREADY_EXISTS == 64237
NOT_FOUND == 25524
NOT_EMPTY == 51155

partial_extension_error == [status |-> "VM_EXTENSION_ERROR", sub_status |-> 0, val |-> <<>>]
partial_abort_error(code) == [status |-> "ABORTED", sub_status |-> code, val |-> <<>>]
NativeResult_ok(vals) == [status |-> "Ok", sub_status |-> 0, val |-> vals]
Panic == [status |-> "panic", sub_status |-> 0, val |-> <<>>]

(***************************************************************************)
(* Table handles: the first 16 bytes of sha3-256 over the transaction hash *)
(* and the number of tables created so far.  The hash is kept symbolic:    *)
(* distinct inputs give distinct handles.                                  *)
(***************************************************************************)
Sha3_256(txn_hash, counter) == <<"T", txn_hash, counter>>

\* the hash of the running transaction, and that of an earlier one
TxnHash == 1
EarlierTxnHash == 0

(***************************************************************************)
(* The remote table resolver: an immutable snapshot.  H_remote holds one   *)
(* entry and reports size 1.  H_bad reports size 0 although it resolves    *)
(* two entries, one of which does not deserialize.  H_collide is a stored  *)
(* table whose handle is the one the third new_table_handle of this        *)
(* transaction computes.                                                   *)
(***************************************************************************)
K1 == Value_u64(1)
K2 == Value_u64(2)
V1 == Value_u64(1)
V2 == Value_u64(2)
V3 == Value_u64(3)
TableLayout == "u64"
KeyBytes(k) == Value_simple_serialize(k, TableLayout).bytes
ValBytes(v) == Value_simple_serialize(v, TableLayout).bytes

H_remote == Sha3_256(EarlierTxnHash, 0)
H_bad == Sha3_256(EarlierTxnHash, 1)
H_collide == Sha3_256(TxnHash, 2)

RemoteTables ==
    [h \in {H_remote, H_bad, H_collide} |->
        IF h = H_remote THEN [size |-> 1, entries |-> [k \in {KeyBytes(K1)} |-> ValBytes(V1)]]
        ELSE IF h = H_bad
        THEN [size |-> 0,
              entries |-> [k \in {KeyBytes(K1), KeyBytes(K2)} |->
                              IF k = KeyBytes(K1) THEN ValBytes(V1) ELSE <<9>>]]
        ELSE [size |-> 1, entries |-> [k \in {KeyBytes(K1)} |-> ValBytes(V1)]]]

\* TableResolver::resolve_table_entry and table_size, when the call succeeds
resolve_table_entry(handle, key_bytes) ==
    IF handle \in DOMAIN RemoteTables /\ key_bytes \in DOMAIN RemoteTables[handle].entries
    THEN Some(RemoteTables[handle].entries[key_bytes])
    ELSE None

table_size(handle) ==
    IF handle \in DOMAIN RemoteTables THEN RemoteTables[handle].size ELSE 0

(***************************************************************************)
(* GlobalValue, the slot of one table entry: None, Fresh (moved in by this *)
(* session), Cached (fetched; dirty once written or moved in again) or     *)
(* Deleted (fetched and moved out).                                        *)
(***************************************************************************)
NoVal == Value_u64(0)
GlobalValue_none == [kind |-> "None", val |-> NoVal, dirty |-> FALSE]
GlobalValue_cached(val) == [kind |-> "Cached", val |-> val, dirty |-> FALSE]
GlobalValue_exists(gv) == gv.kind \in {"Fresh", "Cached"}

\* move_to on a slot that does not exist
GlobalValue_move_to(gv, val) ==
    IF gv.kind = "None" THEN [kind |-> "Fresh", val |-> val, dirty |-> FALSE]
    ELSE [kind |-> "Cached", val |-> val, dirty |-> TRUE]

\* move_from on a slot that exists
GlobalValue_move_from(gv) ==
    IF gv.kind = "Fresh" THEN GlobalValue_none
    ELSE [kind |-> "Deleted", val |-> NoVal, dirty |-> FALSE]

\* a write through the reference that borrow_global hands out
GlobalValue_write_ref(gv, val) ==
    IF gv.kind = "Fresh" THEN [gv EXCEPT !.val = val]
    ELSE [gv EXCEPT !.val = val, !.dirty = TRUE]

GlobalValue_into_effect(gv) ==
    IF gv.kind = "Deleted" THEN [effect |-> "Deleted", val |-> NoVal]
    ELSE IF gv.kind = "Fresh" \/ (gv.kind = "Cached" /\ gv.dirty)
    THEN [effect |-> "Changed", val |-> gv.val]
    ELSE [effect |-> "None", val |-> NoVal]

(***************************************************************************)
(* Table: handle, layouts, content (key bytes -> slot), base_size and      *)
(* size_delta.  Each method returns its result, the table as the call      *)
(* leaves it, and whether it called the resolver; resolver_ok is the       *)
(* outcome of that call.                                                   *)
(***************************************************************************)
TableOut(r, t, c) == [res |-> r, table |-> t, called |-> c]

\* Table::global_value_if_exists asking the resolver on every reference
global_value_if_exists_always_resolving(table, key, resolver_ok) ==
    LET key_bytes == Value_simple_serialize(key, table.key_layout).bytes
        r == resolve_table_entry(table.handle, key_bytes)
        val == Value_simple_deserialize(r.bytes, table.value_layout)
    IN  IF key_bytes \notin DOMAIN table.content
        THEN IF ~resolver_ok \/ (r.some /\ ~val.some)
             THEN TableOut(partial_extension_error, table, TRUE)
             ELSE IF r.some
             THEN TableOut(NativeResult_ok(<<TRUE, Len(key_bytes), Len(r.bytes)>>),
                      [table EXCEPT !.content =
                          MapPut(@, key_bytes, GlobalValue_cached(val.bytes))],
                      TRUE)
             ELSE TableOut(NativeResult_ok(<<FALSE, Len(key_bytes), 0>>),
                      [table EXCEPT !.content = MapPut(@, key_bytes, GlobalValue_none)],
                      TRUE)
        ELSE TableOut(NativeResult_ok(
                          <<GlobalValue_exists(table.content[key_bytes]), Len(key_bytes), 0>>),
                      table, TRUE)

\* Table::global_value_if_exists; val of an Ok result: <<slot exists, key_size, val_size>>
global_value_if_exists(table, key, resolver_ok) ==
    LET ser == Value_simple_serialize(key, table.key_layout)
    IN  IF ~ser.some THEN TableOut(partial_extension_error, table, FALSE)
        ELSE LET key_bytes == ser.bytes
                 key_size == Len(key_bytes)
             IN  IF key_bytes \notin DOMAIN table.content
                 THEN IF ~resolver_ok THEN TableOut(partial_extension_error, table, TRUE)
                      ELSE LET r == resolve_table_entry(table.handle, key_bytes)
                               val == Value_simple_deserialize(r.bytes, table.value_layout)
                           IN  IF r.some /\ ~val.some
                               THEN TableOut(partial_extension_error, table, TRUE)
                               ELSE IF r.some
                               THEN TableOut(NativeResult_ok(<<TRUE, key_size, Len(r.bytes)>>),
                                        [table EXCEPT !.content =
                                            MapPut(@, key_bytes, GlobalValue_cached(val.bytes))],
                                        TRUE)
                               ELSE TableOut(NativeResult_ok(<<FALSE, key_size, 0>>),
                                        [table EXCEPT !.content =
                                            MapPut(@, key_bytes, GlobalValue_none)],
                                        TRUE)
                 ELSE TableOut(NativeResult_ok(
                                   <<GlobalValue_exists(table.content[key_bytes]), key_size, 0>>),
                               table, FALSE)

\* Table::insert overwriting an occupied slot
Table_insert_overwriting(table, key, val, resolver_ok) ==
    LET g == global_value_if_exists(table, key, resolver_ok)
        key_bytes == Value_simple_serialize(key, table.key_layout).bytes
        val_ser == Value_simple_serialize(val, table.value_layout)
    IN  IF g.res.status # "Ok" THEN g
        ELSE IF ~val_ser.some THEN TableOut(partial_extension_error, g.table, g.called)
        ELSE TableOut(NativeResult_ok(<<>>),
                 [g.table EXCEPT !.content =
                     MapPut(@, key_bytes, GlobalValue_move_to(GlobalValue_none, val)),
                  !.size_delta = @ + 1],
                 g.called)

\* Table::insert leaving size_delta as it is
Table_insert_uncounted(table, key, val, resolver_ok) ==
    LET g == global_value_if_exists(table, key, resolver_ok)
        key_bytes == Value_simple_serialize(key, table.key_layout).bytes
    IN  IF g.res.status # "Ok" THEN g
        ELSE IF g.res.val[1] THEN TableOut(partial_abort_error(ALREADY_EXISTS), g.table, g.called)
        ELSE TableOut(NativeResult_ok(<<>>),
                 [g.table EXCEPT !.content =
                     MapPut(@, key_bytes, GlobalValue_move_to(g.table.content[key_bytes], val))],
                 g.called)

\* Table::insert
Table_insert(table, key, val, resolver_ok) ==
    LET g == global_value_if_exists(table, key, resolver_ok)
        key_bytes == Value_simple_serialize(key, table.key_layout).bytes
        val_ser == Value_simple_serialize(val, table.value_layout)
    IN  IF g.res.status # "Ok" THEN g
        ELSE IF g.res.val[1] THEN TableOut(partial_abort_error(ALREADY_EXISTS), g.table, g.called)
        ELSE IF ~val_ser.some THEN TableOut(partial_extension_error, g.table, g.called)
        ELSE TableOut(NativeResult_ok(<<>>),
                 [g.table EXCEPT !.content =
                     MapPut(@, key_bytes, GlobalValue_move_to(g.table.content[key_bytes], val)),
                  !.size_delta = @ + 1],
                 g.called)

\* Table::borrow_global, and the write through the reference when the caller makes
\* one (write.some)
Table_borrow_global(table, key, write, resolver_ok) ==
    LET g == global_value_if_exists(table, key, resolver_ok)
        key_bytes == Value_simple_serialize(key, table.key_layout).bytes
    IN  IF g.res.status # "Ok" THEN g
        ELSE IF ~g.res.val[1] THEN TableOut(partial_abort_error(NOT_FOUND), g.table, g.called)
        ELSE TableOut(NativeResult_ok(<<g.table.content[key_bytes].val>>),
                 IF write.some
                 THEN [g.table EXCEPT !.content =
                          MapPut(@, key_bytes, GlobalValue_write_ref(@[key_bytes], write.bytes))]
                 ELSE g.table,
                 g.called)

\* Table::remove moving out of a slot whatever it holds
Table_remove_unchecked(table, key, resolver_ok) ==
    LET g == global_value_if_exists(table, key, resolver_ok)
        key_bytes == Value_simple_serialize(key, table.key_layout).bytes
    IN  IF g.res.status # "Ok" THEN g
        ELSE TableOut(NativeResult_ok(<<g.table.content[key_bytes].val>>),
                 [g.table EXCEPT !.content =
                     MapPut(@, key_bytes, GlobalValue_move_from(@[key_bytes])),
                  !.size_delta = @ - 1],
                 g.called)

\* Table::remove leaving size_delta as it is
Table_remove_uncounted(table, key, resolver_ok) ==
    LET g == global_value_if_exists(table, key, resolver_ok)
        key_bytes == Value_simple_serialize(key, table.key_layout).bytes
    IN  IF g.res.status # "Ok" THEN g
        ELSE IF ~g.res.val[1] THEN TableOut(partial_abort_error(NOT_FOUND), g.table, g.called)
        ELSE TableOut(NativeResult_ok(<<g.table.content[key_bytes].val>>),
                 [g.table EXCEPT !.content =
                     MapPut(@, key_bytes, GlobalValue_move_from(@[key_bytes]))],
                 g.called)

\* Table::remove
Table_remove(table, key, resolver_ok) ==
    LET g == global_value_if_exists(table, key, resolver_ok)
        key_bytes == Value_simple_serialize(key, table.key_layout).bytes
    IN  IF g.res.status # "Ok" THEN g
        ELSE IF ~g.res.val[1] THEN TableOut(partial_abort_error(NOT_FOUND), g.table, g.called)
        ELSE TableOut(NativeResult_ok(<<g.table.content[key_bytes].val>>),
                 [g.table EXCEPT !.content =
                     MapPut(@, key_bytes, GlobalValue_move_from(@[key_bytes])),
                  !.size_delta = @ - 1],
                 g.called)

\* Table::contains answering what the remote table holds
Table_contains_remote(table, key, resolver_ok) ==
    LET g == global_value_if_exists(table, key, resolver_ok)
        key_bytes == Value_simple_serialize(key, table.key_layout).bytes
    IN  IF g.res.status # "Ok" THEN g
        ELSE TableOut(NativeResult_ok(<<resolve_table_entry(table.handle, key_bytes).some>>),
                      g.table, g.called)

\* Table::contains
Table_contains(table, key, resolver_ok) ==
    LET g == global_value_if_exists(table, key, resolver_ok)
    IN  IF g.res.status # "Ok" THEN g
        ELSE TableOut(NativeResult_ok(<<g.res.val[1]>>), g.table, g.called)

\* Table::length
Table_length(table) ==
    LET effective_size == table.base_size + table.size_delta
    IN  IF effective_size < 0 THEN TableOut(partial_extension_error, table, FALSE)
        ELSE TableOut(NativeResult_ok(<<effective_size>>), table, FALSE)

\* Table::destroy_empty
Table_destroy_empty(table) ==
    LET l == Table_length(table)
    IN  IF l.res.status # "Ok" THEN l
        ELSE IF l.res.val[1] > 0 THEN TableOut(partial_abort_error(NOT_EMPTY), table, FALSE)
        ELSE TableOut(NativeResult_ok(<<>>), table, FALSE)

(***************************************************************************)
(* TableData: new_tables, removed_tables and tables (handle -> Table).     *)
(* size_ok is the outcome of the resolver's table_size call.               *)
(***************************************************************************)
DataOut(r, td, c) == [res |-> r, table_data |-> td, called |-> c]

\* TableData::get_or_create_table_impl; the assert_eq of line 276 panics
get_or_create_table_impl(td, handle, key_ty, value_ty, new_table, size_ok) ==
    IF handle \notin DOMAIN td.tables
    THEN LET key_layout == type_to_type_layout(key_ty)
             value_layout == type_to_type_layout(value_ty)
             base_size == IF new_table THEN 0 ELSE table_size(handle)
             table == [handle |-> handle, key_layout |-> key_layout.bytes,
                       value_layout |-> value_layout.bytes, content |-> EmptyMap,
                       base_size |-> base_size, size_delta |-> 0]
         IN  IF ~key_layout.some \/ ~value_layout.some
             THEN DataOut(partial_extension_error, td, FALSE)
             ELSE IF new_table /\ size_ok /\ table_size(handle) # 0 THEN DataOut(Panic, td, FALSE)
             ELSE IF ~new_table /\ ~size_ok THEN DataOut(partial_extension_error, td, FALSE)
             ELSE DataOut(NativeResult_ok(<<>>),
                          [td EXCEPT !.tables = MapPut(@, handle, table)], FALSE)
    ELSE IF new_table THEN DataOut(partial_abort_error(ALREADY_EXISTS), td, FALSE)
    ELSE DataOut(NativeResult_ok(<<>>), td, FALSE)

get_table(td, handle, key_ty, value_ty, size_ok) ==
    get_or_create_table_impl(td, handle, key_ty, value_ty, FALSE, size_ok)

new_table(td, handle, key_ty, value_ty, size_ok) ==
    get_or_create_table_impl(td, handle, key_ty, value_ty, TRUE, size_ok)

\* the table of the handle as a method left it, back in the TableData
PutTable(td, handle, o) ==
    DataOut(o.res, [td EXCEPT !.tables[handle] = o.table], o.called)

(***************************************************************************)
(* The natives.  ty_args are <<K, V, Box<V>>>; the layouts come from the   *)
(* first and the third.                                                    *)
(***************************************************************************)
\* native_new_table_handle feeding the hash the number of tables not yet destroyed
native_new_table_handle_live_count(td, ty_args, size_ok) ==
    LET handle == Sha3_256(TxnHash, Cardinality(td.new_tables \ td.removed_tables))
        td1 == [td EXCEPT !.new_tables = @ \cup {handle}]
        t == new_table(td1, handle, ty_args[1], ty_args[3], size_ok)
    IN  IF t.res.status # "Ok" THEN t
        ELSE DataOut(NativeResult_ok(<<handle>>), t.table_data, FALSE)

\* native_new_table_handle; the assert of line 468 panics
native_new_table_handle(td, ty_args, size_ok) ==
    LET handle == Sha3_256(TxnHash, Cardinality(td.new_tables))
        td1 == [td EXCEPT !.new_tables = @ \cup {handle}]
        t == new_table(td1, handle, ty_args[1], ty_args[3], size_ok)
    IN  IF handle \in td.new_tables THEN DataOut(Panic, td, FALSE)
        ELSE IF t.res.status # "Ok" THEN t
        ELSE DataOut(NativeResult_ok(<<handle>>), t.table_data, FALSE)

native_add_box(td, ty_args, handle, key, val, size_ok, resolver_ok) ==
    LET t == get_table(td, handle, ty_args[1], ty_args[3], size_ok)
    IN  IF t.res.status # "Ok" THEN t
        ELSE PutTable(t.table_data, handle,
                      Table_insert(t.table_data.tables[handle], key, val, resolver_ok))

native_length_box(td, ty_args, handle, size_ok) ==
    LET t == get_table(td, handle, ty_args[1], ty_args[3], size_ok)
    IN  IF t.res.status # "Ok" THEN t
        ELSE PutTable(t.table_data, handle, Table_length(t.table_data.tables[handle]))

native_borrow_box(td, ty_args, handle, key, write, size_ok, resolver_ok) ==
    LET t == get_table(td, handle, ty_args[1], ty_args[3], size_ok)
    IN  IF t.res.status # "Ok" THEN t
        ELSE PutTable(t.table_data, handle,
                      Table_borrow_global(t.table_data.tables[handle], key, write, resolver_ok))

native_contains_box(td, ty_args, handle, key, size_ok, resolver_ok) ==
    LET t == get_table(td, handle, ty_args[1], ty_args[3], size_ok)
    IN  IF t.res.status # "Ok" THEN t
        ELSE PutTable(t.table_data, handle,
                      Table_contains(t.table_data.tables[handle], key, resolver_ok))

native_remove_box(td, ty_args, handle, key, size_ok, resolver_ok) ==
    LET t == get_table(td, handle, ty_args[1], ty_args[3], size_ok)
    IN  IF t.res.status # "Ok" THEN t
        ELSE PutTable(t.table_data, handle,
                      Table_remove(t.table_data.tables[handle], key, resolver_ok))

\* native_destroy_empty_box without the emptiness check
native_destroy_empty_box_unchecked(td, ty_args, handle, size_ok) ==
    LET t == get_table(td, handle, ty_args[1], ty_args[3], size_ok)
    IN  IF t.res.status # "Ok" THEN t
        ELSE IF handle \in t.table_data.removed_tables THEN DataOut(Panic, t.table_data, FALSE)
        ELSE DataOut(NativeResult_ok(<<>>),
                     [t.table_data EXCEPT !.removed_tables = @ \cup {handle}], FALSE)

\* native_destroy_empty_box; the assert of line 635 panics
native_destroy_empty_box(td, ty_args, handle, size_ok) ==
    LET t == get_table(td, handle, ty_args[1], ty_args[3], size_ok)
        d == Table_destroy_empty(t.table_data.tables[handle])
    IN  IF t.res.status # "Ok" THEN t
        ELSE IF d.res.status # "Ok" THEN PutTable(t.table_data, handle, d)
        ELSE IF handle \in t.table_data.removed_tables THEN DataOut(Panic, t.table_data, FALSE)
        ELSE DataOut(NativeResult_ok(<<>>),
                     [t.table_data EXCEPT !.removed_tables = @ \cup {handle}], FALSE)

native_drop_unchecked_box(td) == DataOut(NativeResult_ok(<<>>), td, FALSE)

(***************************************************************************)
(* NativeTableContext::into_change_set: the new and removed handles, and   *)
(* for every table of the TableData its entries with an effect, its        *)
(* base_size and its size_delta.                                           *)
(***************************************************************************)
\* the TableChange without the deletions
TableChange_without_deletions(table) ==
    [entries |->
        [k \in {kb \in DOMAIN table.content :
                    GlobalValue_into_effect(table.content[kb]).effect = "Changed"} |->
            Some(Value_simple_serialize(GlobalValue_into_effect(table.content[k]).val,
                                        table.value_layout).bytes)],
     base_size |-> table.base_size,
     size_delta |-> table.size_delta]

TableChange(table) ==
    [entries |->
        [k \in {kb \in DOMAIN table.content :
                    GlobalValue_into_effect(table.content[kb]).effect # "None"} |->
            LET e == GlobalValue_into_effect(table.content[k])
            IN  IF e.effect = "Deleted" THEN None
                ELSE Some(Value_simple_serialize(e.val, table.value_layout).bytes)],
     base_size |-> table.base_size,
     size_delta |-> table.size_delta]

into_change_set(td) ==
    IF \E h \in DOMAIN td.tables : \E k \in DOMAIN td.tables[h].content :
          LET e == GlobalValue_into_effect(td.tables[h].content[k])
          IN  e.effect = "Changed"
              /\ ~Value_simple_serialize(e.val, td.tables[h].value_layout).some
    THEN partial_extension_error
    ELSE NativeResult_ok([new_tables |-> td.new_tables,
                          removed_tables |-> td.removed_tables,
                          changes |-> [h \in DOMAIN td.tables |-> TableChange(td.tables[h])]])

(***************************************************************************)
(* The state machine of the table extension: one session's context, the    *)
(* natives called on it in any order, and into_change_set at its end.  A   *)
(* Table value is linear in Move: the natives are called on the handle of  *)
(* a table that is stored remotely or that new_table_handle returned in    *)
(* this session, and that destroy_empty_box has not consumed.              *)
(***************************************************************************)
cache_vars == <<account_db, db_open, status, event_data, get_resource_calls, log, ret>>

H0 == Sha3_256(TxnHash, 0)
H1 == Sha3_256(TxnHash, 1)
TableTyArgs == <<"u64", "u64", "u64">>

\* inputs of the natives: handle, key, value or written value
AddArgs == {<<H_remote, K1, V2>>, <<H_remote, K2, V2>>, <<H_remote, K2, V3>>, <<H0, K1, V2>>}
BorrowArgs ==
    {<<H_remote, K1, None>>, <<H_remote, K1, Some(V3)>>, <<H_remote, K2, None>>,
     <<H0, K1, Some(V3)>>}
RemoveArgs == {<<H_remote, K1>>, <<H_remote, K2>>, <<H0, K1>>, <<H_bad, K1>>}
ContainsArgs == {<<H_remote, K1>>, <<H_remote, K2>>, <<H0, K1>>, <<H_bad, K2>>}
TableHandles == {H_remote, H_bad, H_collide, H0}
\* the type arguments of new_table_handle and the outcome of table_size
NewTableInputs ==
    {<<TableTyArgs, TRUE>>, <<TableTyArgs, FALSE>>, <<<<"u64", "u64", "&u64">>, TRUE>>}

Minted == {table_log[i].res.val[1] :
              i \in {j \in 1..Len(table_log) :
                        table_log[j].op = "new_table_handle" /\ table_log[j].res.status = "Ok"}}
Held == ((DOMAIN RemoteTables) \cup Minted) \ table_data.removed_tables

TableLive ==
    /\ Len(table_log) < MaxTableOps
    /\ table_log # <<>> =>
         /\ table_log[Len(table_log)].res.status # "panic"
         /\ table_log[Len(table_log)].op # "into_change_set"

\* the outcomes of the resolver's calls: table_size is called on the first touch of a
\* handle, resolve_table_entry on a reference to a key that has no slot.  The calls
\* that fail are those about H_remote, table_size within length_box and
\* resolve_table_entry within contains_box and borrow_box.
SizeEnvs(handle) ==
    IF handle = H_remote /\ handle \notin DOMAIN table_data.tables THEN {TRUE, FALSE}
    ELSE {TRUE}
ResolveEnvs(handle, called) == IF handle = H_remote /\ called THEN {TRUE, FALSE} ELSE {TRUE}

Calls(handle, key_bytes) ==
    IF <<handle, key_bytes>> \in DOMAIN resolve_table_entry_calls
    THEN resolve_table_entry_calls[<<handle, key_bytes>>] ELSE 0

TableCalled(op, arg, env, out) ==
    /\ table_data' = out.table_data
    /\ resolve_table_entry_calls' =
         IF out.called
         THEN MapPut(resolve_table_entry_calls, <<arg[1], KeyBytes(arg[2])>>,
                     Calls(arg[1], KeyBytes(arg[2])) + 1)
         ELSE resolve_table_entry_calls
    /\ table_log' = Append(table_log, [op |-> op, arg |-> arg, env |-> env, res |-> out.res,
                                       called |-> out.called, before |-> table_data])
    /\ UNCHANGED <<cache_vars, tool_vars>>

do_new_table_handle ==
    /\ TableLive
    /\ \E i \in NewTableInputs :
         \E out \in {native_new_table_handle(table_data, i[1], i[2])} :
            TableCalled("new_table_handle", <<i[1]>>, <<i[2], TRUE>>, out)

do_add_box ==
    /\ TableLive
    /\ \E a \in AddArgs : a[1] \in Held /\
         \E out \in {native_add_box(table_data, TableTyArgs, a[1], a[2], a[3], TRUE, TRUE)} :
            TableCalled("add_box", a, <<TRUE, TRUE>>, out)

do_borrow_box ==
    /\ TableLive
    /\ \E a \in BorrowArgs : a[1] \in Held /\
         \E resolver_ok \in ResolveEnvs(a[1], native_borrow_box(table_data, TableTyArgs, a[1],
                                                                a[2], a[3], TRUE, TRUE).called) :
           \E out \in {native_borrow_box(table_data, TableTyArgs, a[1], a[2], a[3], TRUE,
                                         resolver_ok)} :
              TableCalled("borrow_box", a, <<TRUE, resolver_ok>>, out)

do_remove_box ==
    /\ TableLive
    /\ \E a \in RemoveArgs : a[1] \in Held /\
         \E out \in {native_remove_box(table_data, TableTyArgs, a[1], a[2], TRUE, TRUE)} :
            TableCalled("remove_box", a, <<TRUE, TRUE>>, out)

do_contains_box ==
    /\ TableLive
    /\ \E a \in ContainsArgs : a[1] \in Held /\
         \E resolver_ok \in ResolveEnvs(a[1], native_contains_box(table_data, TableTyArgs, a[1],
                                                                  a[2], TRUE, TRUE).called) :
           \E out \in {native_contains_box(table_data, TableTyArgs, a[1], a[2], TRUE,
                                           resolver_ok)} :
              TableCalled("contains_box", a, <<TRUE, resolver_ok>>, out)

do_length_box ==
    /\ TableLive
    /\ \E h \in TableHandles : h \in Held /\
         \E size_ok \in SizeEnvs(h) :
           \E out \in {native_length_box(table_data, TableTyArgs, h, size_ok)} :
              TableCalled("length_box", <<h>>, <<size_ok, TRUE>>, out)

do_destroy_empty_box ==
    /\ TableLive
    /\ \E h \in TableHandles : h \in Held /\
         \E out \in {native_destroy_empty_box(table_data, TableTyArgs, h, TRUE)} :
            TableCalled("destroy_empty_box", <<h>>, <<TRUE, TRUE>>, out)

\* called by Table::destroy_empty on the table destroy_empty_box has just consumed
do_drop_unchecked_box ==
    /\ TableLive
    /\ table_log # <<>>
    /\ table_log[Len(table_log)].op = "destroy_empty_box"
    /\ table_log[Len(table_log)].res.status = "Ok"
    /\ TableCalled("drop_unchecked_box", table_log[Len(table_log)].arg, <<TRUE, TRUE>>,
                   native_drop_unchecked_box(table_data))

do_into_change_set ==
    /\ TableLive
    /\ TableCalled("into_change_set", <<>>, <<TRUE, TRUE>>,
                   DataOut(into_change_set(table_data), table_data, FALSE))

NextTable ==
    \/ do_new_table_handle
    \/ do_add_box
    \/ do_borrow_box
    \/ do_remove_box
    \/ do_contains_box
    \/ do_length_box
    \/ do_destroy_empty_box
    \/ do_drop_unchecked_box
    \/ do_into_change_set

SpecTable == Init /\ [][NextTable]_vars

(***************************************************************************)
(* Properties of the table extension.                                      *)
(***************************************************************************)
KeyOps == {"add_box", "borrow_box", "remove_box", "contains_box"}
LastCall == table_log[Len(table_log)]
\* the TableData after the i-th call
After(i) == IF i = Len(table_log) THEN table_data ELSE table_log[i + 1].before
\* the calls about the key (given by its bytes) of a table
About(handle, key_bytes) ==
    {i \in 1..Len(table_log) :
        /\ table_log[i].op \in KeyOps
        /\ table_log[i].arg[1] = handle
        /\ KeyBytes(table_log[i].arg[2]) = key_bytes}
HasSlot(td, handle, key_bytes) ==
    handle \in DOMAIN td.tables /\ key_bytes \in DOMAIN td.tables[handle].content
\* the calls whose lookup of the key failed: the resolver was called and no slot is kept
FailedLookups(handle, key_bytes) ==
    {i \in About(handle, key_bytes) :
        table_log[i].called /\ ~HasSlot(After(i), handle, key_bytes)}

\* C22 as stated: any sequence of insert, borrow, remove and contains on (handle, K)
\* in one session triggers at most one resolve_table_entry call for (handle, K).
C22_AtMostOneLookup ==
    \A hk \in DOMAIN resolve_table_entry_calls : resolve_table_entry_calls[hk] <= 1

\* C22: for every table and key K, insert, borrow, remove and contains on (handle, K)
\* trigger at most one resolve_table_entry call that is answered with bytes that
\* deserialize or with no entry; that call leaves a present-and-clean or an absent
\* slot which every later reference reuses.  A call that fails leaves no slot, and
\* the next reference calls the resolver again.
C22_AtMostOneAnsweredLookup ==
    /\ \A hk \in DOMAIN resolve_table_entry_calls :
         /\ resolve_table_entry_calls[hk]
              = Cardinality({i \in About(hk[1], hk[2]) : table_log[i].called})
         /\ resolve_table_entry_calls[hk] <= 1 + Cardinality(FailedLookups(hk[1], hk[2]))
    /\ \A i \in 1..Len(table_log) :
         table_log[i].op \in KeyOps =>
            LET h == table_log[i].arg[1]
                kb == KeyBytes(table_log[i].arg[2])
            IN  /\ table_log[i].called
                     => /\ ~HasSlot(table_log[i].before, h, kb)
                        /\ <<h, kb>> \in DOMAIN resolve_table_entry_calls
                /\ HasSlot(table_log[i].before, h, kb) => HasSlot(After(i), h, kb)
                /\ i \in FailedLookups(h, kb) => table_log[i].res.status = "VM_EXTENSION_ERROR"

\* three references to a key the resolver holds: one call, reused twice
C22_Witness ==
    /\ Len(table_log) = 3
    /\ About(H_remote, KeyBytes(K1)) = {1, 2, 3}
    /\ table_log[1].called /\ table_log[1].env[2]
    /\ Calls(H_remote, KeyBytes(K1)) = 1

\* the calls of destroy_empty_box that succeeded
Destroyed == {i \in 1..Len(table_log) :
                 table_log[i].op = "destroy_empty_box" /\ table_log[i].res.status = "Ok"}
\* the length of a table of the TableData, as Table::length computes it
LengthIn(td, handle) == td.tables[handle].base_size + td.tables[handle].size_delta
\* the call is one on a table that get_table finds or creates
OnKnownTable(i) ==
    /\ table_log[i].env[1]
    /\ table_log[i].arg[1] \in DOMAIN After(i).tables
IsChangeSet == table_log # <<>> /\ LastCall.op = "into_change_set" /\ LastCall.res.status = "Ok"

\* C23: destroy_empty on a table of length 0 succeeds, and in the table change set
\* produced afterwards the handle is in the removed set and in neither the new set nor
\* the per-handle changes, even when the table was created in the same session.
C23_DestroyedOnlyInRemoved ==
    /\ \A i \in 1..Len(table_log) :
         (table_log[i].op = "destroy_empty_box" /\ OnKnownTable(i)
            /\ LengthIn(After(i), table_log[i].arg[1]) = 0)
         => table_log[i].res.status = "Ok"
    /\ IsChangeSet =>
         \A i \in Destroyed :
             /\ table_log[i].arg[1] \in LastCall.res.val.removed_tables
             /\ table_log[i].arg[1] \notin LastCall.res.val.new_tables
             /\ table_log[i].arg[1] \notin DOMAIN LastCall.res.val.changes

\* C24: destroy_empty on a table whose length is greater than zero fails with the
\* NotEmpty abort code and does not add the handle to the removed set; on a table of
\* length zero it succeeds and adds the handle to the removed set.
C24_DestroyNeedsEmpty ==
    (table_log # <<>> /\ LastCall.op = "destroy_empty_box" /\ OnKnownTable(Len(table_log))) =>
        LET h == LastCall.arg[1]
        IN  /\ LengthIn(table_data, h) > 0
                 => /\ LastCall.res = partial_abort_error(NOT_EMPTY)
                    /\ table_data.removed_tables = LastCall.before.removed_tables
            /\ LengthIn(table_data, h) = 0
                 => /\ LastCall.res.status = "Ok"
                    /\ h \notin LastCall.before.removed_tables
                    /\ table_data.removed_tables = LastCall.before.removed_tables \cup {h}

\* a stored table refused while it holds its entry, destroyed once the entry is removed
C24_Witness ==
    /\ Len(table_log) = 3
    /\ table_log[1].op = "destroy_empty_box" /\ table_log[1].arg[1] = H_remote
    /\ table_log[1].res = partial_abort_error(NOT_EMPTY)
    /\ H_remote \notin table_log[2].before.removed_tables
    /\ table_log[2].op = "remove_box" /\ table_log[2].res.status = "Ok"
    /\ LastCall.op = "destroy_empty_box" /\ LastCall.arg[1] = H_remote
    /\ LastCall.res.status = "Ok"
    /\ H_remote \in table_data.removed_tables

\* what the session sees under a key: the slot of the key when it has one, else the
\* entry of the remote table
SlotOf(td, handle, key_bytes) ==
    IF HasSlot(td, handle, key_bytes) THEN td.tables[handle].content[key_bytes]
    ELSE LET r == resolve_table_entry(handle, key_bytes)
         IN  IF r.some /\ Value_simple_deserialize(r.bytes, TableLayout).some
             THEN GlobalValue_cached(Value_simple_deserialize(r.bytes, TableLayout).bytes)
             ELSE GlobalValue_none
Occupied(td, handle, key_bytes) == GlobalValue_exists(SlotOf(td, handle, key_bytes))
SizeDelta(td, handle) == IF handle \in DOMAIN td.tables THEN td.tables[handle].size_delta ELSE 0
\* the call reached the table's method and its lookup of the key was answered
Answered(i) ==
    /\ table_log[i].op \in KeyOps
    /\ table_log[i].env = <<TRUE, TRUE>>
    /\ HasSlot(After(i), table_log[i].arg[1], KeyBytes(table_log[i].arg[2]))

\* C25: insert(k, v) on a key whose slot is occupied (present remotely and not removed,
\* or inserted earlier in the session) fails with the AlreadyExists abort code and
\* leaves the stored value and the size delta unchanged: the value present afterwards
\* is the one present before, with the effect it had before.
C25_InsertNeverOverwrites ==
    (table_log # <<>> /\ LastCall.op = "add_box" /\ Answered(Len(table_log))) =>
        LET h == LastCall.arg[1]
            kb == KeyBytes(LastCall.arg[2])
        IN  Occupied(LastCall.before, h, kb) =>
               /\ LastCall.res = partial_abort_error(ALREADY_EXISTS)
               /\ SlotOf(table_data, h, kb) = SlotOf(LastCall.before, h, kb)
               /\ SizeDelta(table_data, h) = SizeDelta(LastCall.before, h)

\* AlreadyExists on an entry of the remote table and on an entry inserted before
C25_Witness ==
    /\ Len(table_log) = 3
    /\ table_log[1].op = "add_box" /\ table_log[1].arg = <<H_remote, K1, V2>>
    /\ table_log[1].res = partial_abort_error(ALREADY_EXISTS)
    /\ table_log[2].op = "add_box" /\ table_log[2].arg = <<H_remote, K2, V2>>
    /\ table_log[2].res.status = "Ok"
    /\ LastCall.op = "add_box" /\ LastCall.arg = <<H_remote, K2, V3>>
    /\ LastCall.res = partial_abort_error(ALREADY_EXISTS)
    /\ SlotOf(table_data, H_remote, KeyBytes(K1)).val = V1
    /\ SlotOf(table_data, H_remote, KeyBytes(K2)).val = V2
    /\ SizeDelta(table_data, H_remote) = 1

EntriesOf(td, handle) ==
    IF handle \in DOMAIN td.tables THEN TableChange(td.tables[handle]).entries ELSE EmptyMap

\* C26: remove(k) and borrow(k) on a key that is absent (never present, or removed
\* earlier in the session) fail with the NotFound abort code and leave the size delta
\* and the table's eventual change-set entries unchanged.
C26_AbsentKeyNotFound ==
    (table_log # <<>> /\ LastCall.op \in {"remove_box", "borrow_box"}
       /\ Answered(Len(table_log))) =>
        LET h == LastCall.arg[1]
            kb == KeyBytes(LastCall.arg[2])
        IN  ~Occupied(LastCall.before, h, kb) =>
               /\ LastCall.res = partial_abort_error(NOT_FOUND)
               /\ SizeDelta(table_data, h) = SizeDelta(LastCall.before, h)
               /\ EntriesOf(table_data, h) = EntriesOf(LastCall.before, h)

\* NotFound on a key that was never present and on a key removed before
C26_Witness ==
    /\ Len(table_log) = 3
    /\ table_log[1].op = "remove_box" /\ table_log[1].arg = <<H_remote, K2>>
    /\ table_log[1].res = partial_abort_error(NOT_FOUND)
    /\ table_log[2].op = "remove_box" /\ table_log[2].arg = <<H_remote, K1>>
    /\ table_log[2].res.status = "Ok"
    /\ LastCall.op = "borrow_box" /\ LastCall.arg[1] = H_remote /\ LastCall.arg[2] = K1
    /\ LastCall.res = partial_abort_error(NOT_FOUND)
    /\ SizeDelta(table_data, H_remote) = -1
    /\ DOMAIN EntriesOf(table_data, H_remote) = {KeyBytes(K1)}

\* the i-th call is op on the key (handle and key) of the j-th call
SameKey(i, j) ==
    /\ table_log[i].arg[1] = table_log[j].arg[1]
    /\ table_log[i].arg[2] = table_log[j].arg[2]
InsertedAt(i) == table_log[i].op = "add_box" /\ table_log[i].res.status = "Ok"

\* C27: for every table and key k, a successful insert(k, v) followed immediately by
\* contains(k) returns true, and a successful insert(k, v) followed by remove(k) and
\* then contains(k) returns false.
C27_ContainsFollowsInsertAndRemove ==
    (table_log # <<>> /\ LastCall.op = "contains_box") =>
        LET n == Len(table_log)
        IN  /\ (n >= 2 /\ InsertedAt(n - 1) /\ SameKey(n - 1, n))
                 => LastCall.res = NativeResult_ok(<<TRUE>>)
            /\ (n >= 3 /\ InsertedAt(n - 2) /\ table_log[n - 1].op = "remove_box"
                  /\ SameKey(n - 2, n - 1) /\ SameKey(n - 1, n))
                 => /\ table_log[n - 1].res.status = "Ok"
                    /\ LastCall.res = NativeResult_ok(<<FALSE>>)

\* insert, remove and contains on a key the remote table does not hold
C27_Witness ==
    /\ Len(table_log) = 3
    /\ InsertedAt(1) /\ table_log[1].arg = <<H_remote, K2, V2>>
    /\ table_log[2].op = "remove_box" /\ SameKey(1, 2) /\ table_log[2].res.status = "Ok"
    /\ LastCall.op = "contains_box" /\ SameKey(2, 3)
    /\ LastCall.res = NativeResult_ok(<<FALSE>>)

\* the calls that changed what is under the key: successful insert, remove, and borrow
\* with a write through the reference
Mutations(handle, key_bytes) ==
    {i \in About(handle, key_bytes) :
        /\ table_log[i].res.status = "Ok"
        /\ \/ table_log[i].op \in {"add_box", "remove_box"}
           \/ table_log[i].op = "borrow_box" /\ table_log[i].arg[3].some}
LastMutation(handle, key_bytes) ==
    CHOOSE i \in Mutations(handle, key_bytes) : \A j \in Mutations(handle, key_bytes) : j <= i
\* the value a mutation leaves under the key
WrittenBy(i) == IF table_log[i].op = "add_box" THEN table_log[i].arg[3]
                ELSE table_log[i].arg[3].bytes

\* C28: in the table change set, a key that ends the session absent has a deletion if
\* it pre-existed remotely and no entry if it was new this session; a key that was only
\* read has no entry; a key that ends the session with a value inserted or modified in
\* the session has an entry with that value's serialized bytes.
C28_NetEffectPerKey ==
    IsChangeSet =>
        \A h \in DOMAIN table_data.tables : \A k \in {K1, K2} :
            LET kb == KeyBytes(k)
                entries == LastCall.res.val.changes[h].entries
                muts == Mutations(h, kb)
                last == table_log[LastMutation(h, kb)]
            IN  /\ muts = {} => kb \notin DOMAIN entries
                /\ (muts # {} /\ last.op = "remove_box")
                     => IF resolve_table_entry(h, kb).some
                        THEN kb \in DOMAIN entries /\ entries[kb] = None
                        ELSE kb \notin DOMAIN entries
                /\ (muts # {} /\ last.op # "remove_box")
                     => /\ kb \in DOMAIN entries
                        /\ entries[kb] = Some(ValBytes(WrittenBy(LastMutation(h, kb))))

\* a stored entry removed and a new entry inserted: one deletion and one value
C28_Witness ==
    /\ IsChangeSet
    /\ Len(table_log) = 3
    /\ Mutations(H_remote, KeyBytes(K1)) # {}
    /\ Mutations(H_remote, KeyBytes(K2)) # {}
    /\ LastCall.res.val.changes[H_remote].entries[KeyBytes(K1)] = None
    /\ LastCall.res.val.changes[H_remote].entries[KeyBytes(K2)] = Some(ValBytes(V3))

\* the resolver's table_size agrees with the entries it resolves for the handle
Consistent(handle) ==
    table_size(handle)
      = Cardinality({kb \in {KeyBytes(K1), KeyBytes(K2)} : resolve_table_entry(handle, kb).some})

\* C29: for every table, base_size + size_delta >= 0 in every reachable state of a
\* session, after any sequence of successful and failed insert, remove, borrow,
\* contains, length and destroy_empty, given a resolver whose table_size agrees with
\* the entries it resolves.
C29_SizeNeverNegative ==
    \A h \in DOMAIN table_data.tables : Consistent(h) => LengthIn(table_data, h) >= 0

\* a stored table emptied by a remove, a second remove refused, and its length read
C29_Witness ==
    /\ Len(table_log) = 3
    /\ table_log[1].op = "remove_box" /\ table_log[1].arg = <<H_remote, K1>>
    /\ table_log[1].res.status = "Ok"
    /\ table_log[2].op = "remove_box" /\ table_log[2].arg = <<H_remote, K1>>
    /\ table_log[2].res = partial_abort_error(NOT_FOUND)
    /\ LastCall.op = "length_box" /\ LastCall.res = NativeResult_ok(<<0>>)
    /\ table_data.tables[H_remote].size_delta = -1

Mints == {i \in 1..Len(table_log) : table_log[i].op = "new_table_handle"}
\* the counter a call of new_table_handle feeds to the hash
CounterAt(i) == Cardinality(table_log[i].before.new_tables)

\* C30: table handles are never reused within a session: the handles returned by
\* successive new_table_handle calls are pairwise distinct, because the counter fed to
\* the hash strictly increases with every mint and never decreases, also after tables
\* are destroyed.
C30_HandlesNeverReused ==
    table_log # <<>> =>
        /\ LastCall.before.new_tables \subseteq table_data.new_tables
        /\ (LastCall.op = "new_table_handle" /\ LastCall.res.status # "panic") =>
             LET handle == Sha3_256(TxnHash, CounterAt(Len(table_log)))
             IN  /\ handle \notin LastCall.before.new_tables
                 /\ table_data.new_tables = LastCall.before.new_tables \cup {handle}
                 /\ LastCall.res.status = "Ok" => LastCall.res.val = <<handle>>
                 /\ \A i \in Mints \ {Len(table_log)} :
                      /\ CounterAt(i) < CounterAt(Len(table_log))
                      /\ table_log[i].res.status = "Ok" => table_log[i].res.val[1] # handle

\* a table created and destroyed, then a second table created: a different handle
C30_Witness ==
    /\ Len(table_log) = 3
    /\ table_log[1].op = "new_table_handle" /\ table_log[1].res = NativeResult_ok(<<H0>>)
    /\ table_log[2].op = "destroy_empty_box" /\ table_log[2].arg = <<H0>>
    /\ table_log[2].res.status = "Ok"
    /\ LastCall.op = "new_table_handle" /\ LastCall.res = NativeResult_ok(<<H1>>)
    /\ CounterAt(1) = 0 /\ CounterAt(3) = 1

\* the handle that the i-th call, a new_table_handle, computes
MintedAt(i) == Sha3_256(TxnHash, CounterAt(i))

\* C31: when the resolver reports an existing table under the handle that
\* new_table_handle computes, the call fails with the AlreadyExists abort returned to
\* the caller; and when the resolver could not confirm that the handle is free, no
\* table is registered as new.
C31_MintChecksRemote ==
    (table_log # <<>> /\ LastCall.op = "new_table_handle") =>
        LET handle == MintedAt(Len(table_log))
        IN  /\ (LastCall.env[1] /\ table_size(handle) # 0)
                 => LastCall.res = partial_abort_error(ALREADY_EXISTS)
            /\ ~LastCall.env[1]
                 => /\ LastCall.res.status # "Ok"
                    /\ handle \notin DOMAIN table_data.tables
                    /\ handle \notin table_data.new_tables

\* C36: a new_table_handle call that fails leaves the set of new handles, the set of
\* removed handles and the known tables as they were, so the handle is not reported
\* as new in the table change set.
C36_FailedMintChangesNothing ==
    /\ \A i \in Mints :
         table_log[i].res.status \notin {"Ok", "panic"} => After(i) = table_log[i].before
    /\ IsChangeSet =>
         \A i \in Mints :
            table_log[i].res.status \notin {"Ok", "panic"}
               => MintedAt(i) \notin LastCall.res.val.new_tables

(***************************************************************************)
(* The natives called on the handle of a table that destroy_empty_box has  *)
(* already put into removed_tables.  The natives take the table by         *)
(* reference and look the handle up with get_table, like every other call. *)
(***************************************************************************)
Removed == table_data.removed_tables

do_add_box_removed ==
    /\ TableLive
    /\ \E h \in Removed :
         \E out \in {native_add_box(table_data, TableTyArgs, h, K1, V2, TRUE, TRUE)} :
            TableCalled("add_box", <<h, K1, V2>>, <<TRUE, TRUE>>, out)

do_borrow_box_removed ==
    /\ TableLive
    /\ \E h \in Removed :
         \E out \in {native_borrow_box(table_data, TableTyArgs, h, K1, None, TRUE, TRUE)} :
            TableCalled("borrow_box", <<h, K1, None>>, <<TRUE, TRUE>>, out)

do_remove_box_removed ==
    /\ TableLive
    /\ \E h \in Removed :
         \E out \in {native_remove_box(table_data, TableTyArgs, h, K1, TRUE, TRUE)} :
            TableCalled("remove_box", <<h, K1>>, <<TRUE, TRUE>>, out)

do_destroy_empty_box_removed ==
    /\ TableLive
    /\ \E h \in Removed :
         \E out \in {native_destroy_empty_box(table_data, TableTyArgs, h, TRUE)} :
            TableCalled("destroy_empty_box", <<h>>, <<TRUE, TRUE>>, out)

NextTableRemoved ==
    \/ NextTable
    \/ do_add_box_removed
    \/ do_borrow_box_removed
    \/ do_remove_box_removed
    \/ do_destroy_empty_box_removed

SpecTableRemoved == Init /\ [][NextTableRemoved]_vars

\* C37: once destroy_empty on a handle has succeeded, every later insert, borrow,
\* remove or destroy_empty on the handle returns an error and leaves the table data
\* as it was, so that no handle of the removed set carries a changed entry in the
\* table change set.
C37_RemovedHandleRefused ==
    /\ \A i \in 1..Len(table_log) :
         (/\ table_log[i].op \in {"add_box", "borrow_box", "remove_box", "destroy_empty_box"}
          /\ table_log[i].arg[1] \in table_log[i].before.removed_tables)
         => /\ table_log[i].res.status \notin {"Ok", "panic"}
            /\ After(i) = table_log[i].before
    /\ IsChangeSet =>
         \A h \in LastCall.res.val.removed_tables \cap DOMAIN LastCall.res.val.changes :
            \A k \in DOMAIN LastCall.res.val.changes[h].entries :
               ~LastCall.res.val.changes[h].entries[k].some

\* what contains answers for the key in the current state, the resolver answering
ContainsNow(handle, key) ==
    native_contains_box(table_data, TableTyArgs, handle, key, TRUE, TRUE).res.val[1]

\* the resolver answered the table_size call that fixed the base_size of the handle's
\* table: that of this call, or that of the new_table_handle that registered it
SizeAnswered(handle) ==
    /\ LastCall.env[1]
    /\ \A i \in Mints : MintedAt(i) = handle => table_log[i].env[1]

\* C39: for a resolver whose table_size(h) equals the number of keys it resolves
\* under h, after any sequence of successful and failed insert, remove, borrow and
\* contains on h, length(h) succeeds and equals the number of keys for which
\* contains returns true.
C39_LengthCountsContainedKeys ==
    (table_log # <<>> /\ LastCall.op = "length_box" /\ SizeAnswered(LastCall.arg[1])
        /\ Consistent(LastCall.arg[1])) =>
        /\ LastCall.res.status = "Ok"
        /\ LastCall.res.val[1]
             = Cardinality({k \in {K1, K2} : ContainsNow(LastCall.arg[1], k)})

\* a stored table with one entry after an insert of a second key and the removal of
\* the first: length 1, the inserted key contained, the removed one not
C39_Witness ==
    /\ Len(table_log) = 3
    /\ table_log[1].op = "add_box" /\ table_log[1].arg = <<H_remote, K2, V2>>
    /\ table_log[1].res.status = "Ok"
    /\ table_log[2].op = "remove_box" /\ table_log[2].arg = <<H_remote, K1>>
    /\ table_log[2].res.status = "Ok"
    /\ LastCall.op = "length_box" /\ LastCall.arg = <<H_remote>>
    /\ LastCall.res = NativeResult_ok(<<1>>)
    /\ ContainsNow(H_remote, K2)
    /\ ~ContainsNow(H_remote, K1)

(***************************************************************************)
(* VMRuntime::execute_function_for_effects (lines 358-473): the arguments  *)
(* are paired with the parameters by zip, an argument of reference type is *)
(* deserialized against the inner type into a dummy local and passed as a  *)
(* reference to it, and after the call the dummy locals of the mutable     *)
(* references are serialized back.  The interpreter of the model leaves    *)
(* the dummy locals as they were stored.                                   *)
(***************************************************************************)
IsReference(ty) == ty \in {"&signer", "&u64", "&mut u64"}
InnerType(ty) ==
    IF ty = "&signer" THEN "signer" ELSE IF ty \in {"&u64", "&mut u64"} THEN "u64" ELSE ty
Value_reference(val) == [kind |-> "reference", v |-> val]

\* VMRuntime::borrow_arg (lines 475-497)
borrow_arg(arg, arg_t) ==
    LET arg_value == runtime_deserialize_value(arg_t, arg)
    IN  IF arg_value.status # "Ok" THEN arg_value
        ELSE Res("Ok", <<Value_reference(arg_value.val[1])>>)

\* the loop of lines 385-412 over args.into_iter().zip(params): it ends with the
\* shorter of the two
RECURSIVE zip_actuals(_, _)
zip_actuals(args, params) ==
    IF args = <<>> \/ params = <<>> THEN Res("Ok", <<>>)
    ELSE LET first == IF IsReference(Head(params))
                      THEN borrow_arg(Head(args), InnerType(Head(params)))
                      ELSE runtime_deserialize_value(Head(params), Head(args))
         IN  IF first.status # "Ok" THEN first
             ELSE LET rest == zip_actuals(Tail(args), Tail(params))
                  IN  IF rest.status # "Ok" THEN rest
                      ELSE Res("Ok", first.val \o rest.val)

\* the dummy locals of the mutable references among the actuals, in order
RECURSIVE mut_ref_outputs(_, _)
mut_ref_outputs(actuals, params) ==
    IF actuals = <<>> THEN <<>>
    ELSE (IF Head(params) = "&mut u64"
          THEN <<Value_simple_serialize(Head(actuals).v, InnerType(Head(params))).bytes>>
          ELSE <<>>)
         \o mut_ref_outputs(Tail(actuals), Tail(params))

execute_function_for_effects(events, callee, load_ok, args, interp) ==
    IF ~load_ok THEN Call("FUNCTION_RESOLUTION_FAILURE", FALSE, <<>>, <<>>, events)
    ELSE LET actuals == zip_actuals(args, callee.params)
         IN  IF actuals.status # "Ok" THEN Call(actuals.status, FALSE, <<>>, <<>>, events)
             ELSE LET r == Interpreter_entrypoint(events, actuals.val, interp)
                      ser(i) == Value_simple_serialize(r.return_vals[i],
                                    type_to_type_layout(callee.returns[i]).bytes)
                  IN  IF r.status # "Ok" THEN Call(r.status, TRUE, actuals.val, <<>>, r.events)
                      ELSE IF \E i \in 1..Len(callee.returns) :
                                 ~type_to_type_layout(callee.returns[i]).some
                      THEN Call("INTERNAL_TYPE_ERROR", TRUE, actuals.val, <<>>, r.events)
                      ELSE IF Len(callee.returns) # Len(r.return_vals)
                      THEN Call("UNKNOWN_INVARIANT_VIOLATION_ERROR", TRUE, actuals.val, <<>>,
                                r.events)
                      ELSE IF \E i \in 1..Len(r.return_vals) : ~ser(i).some
                      THEN Call("INTERNAL_TYPE_ERROR", TRUE, actuals.val, <<>>, r.events)
                      ELSE Call("Ok", TRUE, actuals.val,
                                <<[i \in 1..Len(r.return_vals) |-> ser(i).bytes],
                                  mut_ref_outputs(actuals.val, callee.params)>>,
                                r.events)

\* callees of execute_function_for_effects: those of the other entry points and two
\* that take a mutable reference
EffectsCallees ==
    Callees \cup {Callee(VERSION_1 + 1, p, <<>>) : p \in {<<"&mut u64">>, <<"u64", "&mut u64">>}}

do_execute_function_for_effects(s) ==
    /\ status[s] = "alive"
    /\ ret.op = "none"
    /\ \E callee \in EffectsCallees, args \in ArgLists :
         \E env \in CallEnvs(execute_function_for_effects(event_data[s], callee, TRUE, args,
                                                          Interp0).res.val.invoked) :
           \E out \in {execute_function_for_effects(event_data[s], callee, env[1], args,
                                                    env[2])} :
              Called(s, "execute_function_for_effects", callee, <<>>, args, env, out)

NextEffects ==
    \/ NextArgs
    \/ \E s \in Sessions : do_execute_function_for_effects(s)

SpecEffects == Init /\ [][NextEffects]_vars

\* the call reached the marshaling of its byte arguments: the callee was loaded, its
\* declared return types have layouts where they are checked first, and the senders
\* match the signer parameters where there is a signer convention
EntryPoints ==
    {"execute_script", "execute_script_function", "execute_function",
     "execute_function_for_effects"}
WithSigners == ret.op \in {"execute_script", "execute_script_function"}
ReachedArgs ==
    /\ ret.op \in EntryPoints
    /\ ret.env[1]
    /\ ret.op \in {"execute_script_function", "execute_function"}
         => \A i \in 1..Len(CalleeOf.returns) : type_to_type_layout(CalleeOf.returns[i]).some
    /\ WithSigners => SignerCount \in {0, Len(SendersOf)}
\* the declared parameters that the byte arguments are for
NonSignerParams ==
    IF WithSigners THEN Len(CalleeOf.params) - SignerCount ELSE Len(CalleeOf.params)

\* C38: every entry point (execute_script, execute_script_function, execute_function
\* and execute_function_for_effects) rejects a call whose number of supplied
\* non-signer arguments differs from the number of declared non-signer parameters with
\* NUMBER_OF_ARGUMENTS_MISMATCH, before the interpreter is invoked.
C38_ArgumentCountChecked ==
    (ReachedArgs /\ Len(ArgsOf) # NonSignerParams) =>
        /\ ret.res.status = "NUMBER_OF_ARGUMENTS_MISMATCH"
        /\ ~Invoked

(***************************************************************************)
(* The runtime's entry points and the table natives in one specification.  *)
(* The two keep their state apart (cache_vars and table_vars), so a        *)
(* behaviour exercises one of them: the entry points of a session, or the  *)
(* natives on the table context.                                           *)
(***************************************************************************)
NoSessionYet == \A s \in Sessions : status[s] = "unborn"

NextLayer ==
    \/ table_log = <<>> /\ NextEffects
    \/ NoSessionYet /\ NextTable

SpecLayer == Init /\ [][NextLayer]_vars

\* the internal invariant violations of the layer
RuntimeCall == ret.op \in EntryPoints /\ ret.env[1]
Returned == RuntimeCall /\ Invoked /\ ret.env[2].status = "Ok"
ArityMismatch ==
    /\ Returned
    /\ ret.op # "execute_script"
    /\ Len(CalleeOf.returns) # Len(ret.env[2].return_vals)
ScriptReturns ==
    /\ Returned
    /\ WithSigners
    /\ ret.env[2].return_vals # <<>>
UnserializableReturnType ==
    /\ RuntimeCall
    /\ ret.op # "execute_script"
    /\ \E i \in 1..Len(CalleeOf.returns) : ~type_to_type_layout(CalleeOf.returns[i]).some
NegativeSize ==
    /\ table_log # <<>>
    /\ LastCall.op = "length_box"
    /\ OnKnownTable(Len(table_log))
    /\ LengthIn(table_data, LastCall.arg[1]) < 0

\* C32 as stated: a negative table size seen by length, a mismatch between the declared
\* and the actual number of return values, a non-empty return from a script or script
\* function, and a declared return type that cannot be serialized are all reported with
\* the unknown-invariant-violation status.
C32_AllUnknownInvariantViolation ==
    /\ (ArityMismatch \/ ScriptReturns \/ UnserializableReturnType)
         => ret.res.status = "UNKNOWN_INVARIANT_VIOLATION_ERROR"
    /\ NegativeSize => LastCall.res.status = "UNKNOWN_INVARIANT_VIOLATION_ERROR"

\* C32 as amended: a return-arity mismatch and a non-empty return from a script or
\* script function are reported with the unknown-invariant-violation status; a declared
\* return type that cannot be serialized is reported with the internal-type-error
\* status, by execute_function and execute_script_function before the interpreter is
\* invoked and by execute_function_for_effects once the interpreter has returned; a
\* negative table size seen by length is reported with the extension error of the
\* table natives and leaves the tables as they were.
C32_ViolationsByKind ==
    /\ (UnserializableReturnType /\ ret.op # "execute_function_for_effects")
         => /\ ret.res.status = "INTERNAL_TYPE_ERROR"
            /\ ~Invoked
    /\ (UnserializableReturnType /\ ret.op = "execute_function_for_effects" /\ Returned)
         => ret.res.status = "INTERNAL_TYPE_ERROR"
    /\ ((ArityMismatch \/ ScriptReturns) /\ ~UnserializableReturnType)
         => ret.res.status = "UNKNOWN_INVARIANT_VIOLATION_ERROR"
    /\ NegativeSize
         => /\ LastCall.res = partial_extension_error
            /\ table_data.tables = LastCall.before.tables

\* a stored table that reports size 0 and resolves an entry: after the removal of the
\* entry its length is refused with the extension error
C32_Witness ==
    /\ Len(table_log) = 2
    /\ table_log[1].op = "remove_box" /\ table_log[1].arg = <<H_bad, K1>>
    /\ table_log[1].res.status = "Ok"
    /\ NegativeSize
    /\ LastCall.arg = <<H_bad>>
    /\ LastCall.res.status = "VM_EXTENSION_ERROR"

\* C33: the change set of into_effects is minimal at the account level: an address
\* appears in it only if it has a module delta or a resource delta, so an address
\* that has no published module and no cached resource with an effect does not
\* appear.  (An entry of the database never loses its modules.)
C33_ChangeSetMinimal ==
    \A s \in Sessions : \A n \in 1..Len(log[s]) :
        (log[s][n].op = "into_effects" /\ log[s][n].res.status = "Ok") =>
            \A addr \in DOMAIN log[s][n].res.val[1] :
                /\ \/ log[s][n].res.val[1][addr].modules # EmptyMap
                   \/ log[s][n].res.val[1][addr].resources # EmptyMap
                /\ \/ load_account_data_cache(account_db, addr).module_map # EmptyMap
                   \/ load_account_data_cache(account_db, addr).data_map # EmptyMap

\* the i-th module of the batch repeats the identity of an earlier one
Repeats(i) == \E j \in 1..(i - 1) : BatchIds[j] = BatchIds[i]
\* the modules of the batch that fail the loop of steps 3 and 4
Offending == {i \in 1..Len(Batch) : Incompatible(i) \/ Repeats(i)}
FirstOffending == CHOOSE i \in Offending : \A j \in Offending : i <= j

\* C34 as stated: when a batch violates several checks, the error is that of the
\* lowest-numbered violated step among deserialization, self-address, compatibility
\* and duplicates, whatever the position of the offending modules; a batch with an
\* incompatible update and a duplicated identity fails with the incompatible-update
\* error.
C34_LowestStepFirst ==
    (IsBundle /\ ret.env[1]) =>
        /\ ~AllParse => ret.res.status = "CODE_DESERIALIZATION_ERROR"
        /\ (AllParse /\ ~StepsOneTwoPass)
              => ret.res.status = "MODULE_ADDRESS_DOES_NOT_MATCH_SENDER"
        /\ (StepsOneTwoPass /\ \E i \in 1..Len(Batch) : Incompatible(i))
              => ret.res.status = "BACKWARD_INCOMPATIBLE_MODULE_UPDATE"
        /\ (StepsOneTwoPass /\ HasDuplicate /\ \A i \in 1..Len(Batch) : ~Incompatible(i))
              => ret.res.status = "DUPLICATE_MODULE_NAME"

\* C34 as amended: deserialization of all modules comes first and the self-address of
\* all modules second; compatibility and duplicates are then checked together, module
\* by module in batch order, compatibility first for each module: the error is that
\* of the first module of the batch that is an incompatible update or repeats an
\* earlier identity; verification comes only when no module fails these checks.
C34_ChecksInBatchOrder ==
    (IsBundle /\ ret.env[1]) =>
        /\ ~AllParse => ret.res.status = "CODE_DESERIALIZATION_ERROR"
        /\ (AllParse /\ ~StepsOneTwoPass)
              => ret.res.status = "MODULE_ADDRESS_DOES_NOT_MATCH_SENDER"
        /\ (StepsOneTwoPass /\ Offending # {})
              => /\ ret.res.status = IF Incompatible(FirstOffending)
                                     THEN "BACKWARD_INCOMPATIBLE_MODULE_UPDATE"
                                     ELSE "DUPLICATE_MODULE_NAME"
                 /\ Untouched
        /\ (StepsOneTwoPass /\ Offending = {}) => ret.res.val.step \in {0, 5, 6}

\* a duplicated new identity ahead of an incompatible update of a stored module: the
\* batch fails as a duplicate
C34_Witness ==
    /\ IsBundle
    /\ ret.env[1]
    /\ StepsOneTwoPass
    /\ Len(Batch) = 3
    /\ ~Existing(1)
    /\ Repeats(2)
    /\ Incompatible(3)
    /\ ret.res.status = "DUPLICATE_MODULE_NAME"

(***************************************************************************)
(* pontem/bytecode_adapter/src/mutator.rs: the Mutator collects patches    *)
(* (a source range of the buffer and the bytes that replace it) and        *)
(* mutate applies them to a buffer in the order of their start offsets.    *)
(* Offsets are 0-based and ranges half-open, as in the source; a panic of  *)
(* a Vec operation (index out of range, slice length mismatch) ends the    *)
(* call.                                                                   *)
(***************************************************************************)
MaxPatches == 3

\* the buffers handed to mutate: their bytes tell their positions
Buffers == {<<>>, <<1>>, <<1, 2>>, <<1, 2, 3>>}
\* the offsets the patches are made of
Offsets == 0..3
\* the values of the patches that start at an offset: none, one or two bytes that
\* tell the patch and the position in it
PatchValues(start_offset) ==
    {[i \in 1..n |-> 10 * (start_offset + 1) + i] : n \in 0..2}

\* v[from..to] of a Vec or slice
Slice(v, from, to) == SubSeq(v, from + 1, to)

Panicked == [panicked |-> TRUE, buffer |-> <<>>]
Buffer(b) == [panicked |-> FALSE, buffer |-> b]

\* Mutator::add_patch, lines 17-25
add_patch(m, start_offset, end_offset, new_value) ==
    LET current_len == end_offset - start_offset
        patch_len == Len(new_value)
    IN  [buffer_diff |-> Append(m.buffer_diff,
                                [source_range |-> [start |-> start_offset,
                                                   end |-> end_offset],
                                 value |-> new_value]),
         length_diff |-> m.length_diff + (patch_len - current_len)]

\* Patch::offset_diff, lines 88-91
offset_diff(patch) ==
    Len(patch.value) - (patch.source_range.end - patch.source_range.start)

\* the patches left in the order of the add_patch calls
sort_by_start_unsorted(buffer_diff) == buffer_diff

\* lines 32-33: sort_by on the start offsets, a stable sort
RECURSIVE sort_by_start(_)
sort_by_start(buffer_diff) ==
    IF buffer_diff = <<>> THEN <<>>
    ELSE LET n == Len(buffer_diff)
             last == buffer_diff[n]
             rest == sort_by_start(SubSeq(buffer_diff, 1, n - 1))
             before == Cardinality({i \in 1..Len(rest) :
                           rest[i].source_range.start <= last.source_range.start})
         IN  SubSeq(rest, 1, before) \o <<last>> \o SubSeq(rest, before + 1, Len(rest))

\* dest = &mut buffer[from..to]; dest.copy_from_slice(src): the slice panics on a range
\* out of the buffer (a negative offset cast to usize is one), copy_from_slice on
\* slices of different lengths
copy_from_slice(buffer, from, to, src) ==
    IF from < 0 \/ from > to \/ to > Len(buffer) \/ to - from # Len(src)
    THEN Panicked
    ELSE Buffer(Slice(buffer, 0, from) \o src \o Slice(buffer, to, Len(buffer)))

\* lines 55-57: buffer.insert(start + src_index, value[src_index]) for each src_index
\* below mutation_diff_len; Vec::insert panics on an index above the length
RECURSIVE insert_loop(_, _, _, _, _)
insert_loop(buffer, start, value, src_index, mutation_diff_len) ==
    IF src_index >= mutation_diff_len THEN Buffer(buffer)
    ELSE IF start + src_index < 0 \/ start + src_index > Len(buffer) THEN Panicked
    ELSE insert_loop(Slice(buffer, 0, start + src_index) \o <<value[src_index + 1]>>
                         \o Slice(buffer, start + src_index, Len(buffer)),
                     start, value, src_index + 1, mutation_diff_len)

\* lines 68-70: buffer.remove(start), count times; Vec::remove panics on an index
\* that is not below the length
RECURSIVE remove_loop(_, _, _)
remove_loop(buffer, start, count) ==
    IF count = 0 THEN Buffer(buffer)
    ELSE IF start < 0 \/ start >= Len(buffer) THEN Panicked
    ELSE remove_loop(Slice(buffer, 0, start) \o Slice(buffer, start + 1, Len(buffer)),
                     start, count - 1)

\* lines 46-74: one mutation that starts inside the original buffer
apply_mutation(buffer, mutation, diff) ==
    LET mutation_diff_len == offset_diff(mutation)
        start == mutation.source_range.start + diff
        end == mutation.source_range.end + diff
    IN  IF mutation_diff_len = 0
        THEN copy_from_slice(buffer, start, end, mutation.value)
        ELSE IF mutation_diff_len > 0
        THEN LET inserted == insert_loop(buffer, start, mutation.value, 0,
                                         mutation_diff_len)
             IN  IF inserted.panicked THEN Panicked
                 ELSE copy_from_slice(inserted.buffer, start + mutation_diff_len,
                                      end + mutation_diff_len,
                                      Slice(mutation.value, mutation_diff_len,
                                            Len(mutation.value)))
        ELSE LET removed == remove_loop(buffer, start, 0 - mutation_diff_len)
             IN  IF removed.panicked THEN Panicked
                 ELSE copy_from_slice(removed.buffer, start, start + Len(mutation.value),
                                      mutation.value)

\* lines 37-77: the loop over the sorted patches; a patch that starts at or beyond the
\* original length is appended and leaves offset_diff alone
RECURSIVE mutate_loop(_, _, _, _)
mutate_loop(buffer_diff, buffer, origin_len, diff) ==
    IF buffer_diff = <<>> THEN Buffer(buffer)
    ELSE LET mutation == Head(buffer_diff)
         IN  IF mutation.source_range.start >= origin_len
             THEN mutate_loop(Tail(buffer_diff), buffer \o mutation.value, origin_len,
                              diff)
             ELSE LET applied == apply_mutation(buffer, mutation, diff)
                  IN  IF applied.panicked THEN Panicked
                      ELSE mutate_loop(Tail(buffer_diff), applied.buffer, origin_len,
                                       diff + offset_diff(mutation))

\* Mutator::mutate, lines 27-78 (reserve_exact changes the capacity only)
mutate(m, buffer) ==
    mutate_loop(sort_by_start(m.buffer_diff), buffer, Len(buffer), 0)

\* m.add_patch(start_offset, end_offset, new_value), on a range with
\* start_offset <= end_offset that starts where no earlier patch of m starts
do_add_patch ==
    /\ ~mutated.done
    /\ Len(mutator.buffer_diff) < MaxPatches
    /\ \E start_offset \in Offsets, end_offset \in Offsets :
         \E new_value \in PatchValues(start_offset) :
            /\ start_offset <= end_offset
            /\ \A i \in 1..Len(mutator.buffer_diff) :
                  mutator.buffer_diff[i].source_range.start # start_offset
            /\ mutator' = add_patch(mutator, start_offset, end_offset, new_value)
    /\ UNCHANGED <<cache_vars, table_vars, mutated, top_sort, popped>>

\* m.mutate(&mut buffer): consumes the Mutator
do_mutate ==
    /\ ~mutated.done
    /\ \E buffer \in Buffers :
          mutated' = [done |-> TRUE, buffer |-> buffer, m |-> mutator,
                      out |-> mutate(mutator, buffer)]
    /\ UNCHANGED <<cache_vars, table_vars, mutator, top_sort, popped>>

NextMutator == do_add_patch \/ do_mutate

SpecMutator == Init /\ [][NextMutator]_vars

\* the patches of the mutate call, as a set
Patches == {mutated.m.buffer_diff[i] : i \in 1..Len(mutated.m.buffer_diff)}
\* the offsets a range denotes
Range(patch) == {o \in Offsets : patch.source_range.start <= o /\ o < patch.source_range.end}
PairwiseDisjoint == \A p, q \in Patches : p # q => Range(p) \cap Range(q) = {}
\* no range starts before another one has ended
OneAfterAnother ==
    \A p, q \in Patches :
        p # q => \/ p.source_range.end <= q.source_range.start
                 \/ q.source_range.end <= p.source_range.start
DistinctStarts ==
    \A p, q \in Patches : p # q => p.source_range.start # q.source_range.start
WithinBuffer == \A p \in Patches : p.source_range.end <= Len(mutated.buffer)

\* the simultaneous splice, offset by offset: the value of the patch that starts at
\* the offset, then the byte of the buffer at the offset when no range holds it;
\* the patches that start at or beyond the end follow in the order of their starts
RECURSIVE Splice(_, _, _)
Splice(buffer, patches, o) ==
    IF o \notin Offsets THEN <<>>
    ELSE LET starting == {p \in patches : p.source_range.start = o}
             value == IF starting = {} THEN <<>> ELSE (CHOOSE p \in starting : TRUE).value
             kept == IF o < Len(buffer) /\ \A p \in patches : o \notin Range(p)
                     THEN <<buffer[o + 1]>> ELSE <<>>
         IN  value \o kept \o Splice(buffer, patches, o + 1)

RECURSIVE SumOfDiffs(_)
SumOfDiffs(patches) ==
    IF patches = {} THEN 0
    ELSE LET p == CHOOSE q \in patches : TRUE
         IN  offset_diff(p) + SumOfDiffs(patches \ {p})

\* the result of the call is the simultaneous splice of the set of its patches (a
\* function of the set: the order of the add_patch calls does not show), of the
\* length the differences add up to
IsSplice ==
    /\ ~mutated.out.panicked
    /\ mutated.out.buffer = Splice(mutated.buffer, Patches, 0)
    /\ Len(mutated.out.buffer) = Len(mutated.buffer) + SumOfDiffs(Patches)
    /\ mutated.m.length_diff = SumOfDiffs(Patches)

\* C35 as stated: mutate applies patches whose source ranges are pairwise disjoint,
\* start at distinct offsets and lie within the buffer as one simultaneous splice:
\* each range is replaced by its value, the other bytes keep their value and order,
\* the length grows by the sum of (patch length minus range length), the order of the
\* add_patch calls does not matter, and patches that start at or beyond the end are
\* appended in the order of their starts.
C35_DisjointPatchesSplice ==
    (mutated.done /\ PairwiseDisjoint /\ DistinctStarts /\ WithinBuffer) => IsSplice

\* C35 as amended: the same for patches none of which starts before another one has
\* ended, which is more than disjointness asks of an empty range.
C35_SeparatePatchesSplice ==
    (mutated.done /\ OneAfterAnother /\ DistinctStarts /\ WithinBuffer) => IsSplice

\* three patches added out of the order of their starts: a range that shrinks, a
\* range that grows and an insertion at the end of the buffer
C35_Witness ==
    /\ mutated.done
    /\ OneAfterAnother /\ DistinctStarts /\ WithinBuffer
    /\ mutated.buffer = <<1, 2, 3>>
    /\ Len(mutated.m.buffer_diff) = 3
    /\ mutated.m.buffer_diff[1].source_range = [start |-> 3, end |-> 3]
    /\ mutated.m.buffer_diff[2].source_range = [start |-> 2, end |-> 3]
    /\ mutated.m.buffer_diff[3].source_range = [start |-> 0, end |-> 2]
    /\ mutated.out = Buffer(<<11, 31, 32, 41>>)

(***************************************************************************)
(* move-prover/bytecode/src/stackifier_topological_sort.rs: the            *)
(* topological sort of the blocks of a control flow graph that             *)
(* StacklessStructuredControlFlow::new fills with one add_dependency call  *)
(* per successor of each block, and that is then popped until pop returns  *)
(* None. An Option<BlockId> is <<>> or <<b>>; the BTreeMaps and BTreeSets  *)
(* iterate in ascending order of the block ids.                            *)
(***************************************************************************)
MaxBlocks == 4
MaxDependencies == 4

Blocks == 1..MaxBlocks

\* the first element of a non-empty BTreeSet<BlockId>
First(set) == CHOOSE b \in set : \A c \in set : b <= c

\* add_dependency_impl, lines 56-81
add_dependency_impl(top, prec, succ) ==
    LET with_prec == IF prec \in DOMAIN top
                     THEN [top EXCEPT ![prec].succ_set = @ \cup {succ}]
                     ELSE MapPut(top, prec, [num_prec |-> 0, succ_set |-> {succ}])
    IN  IF succ \in DOMAIN with_prec
        THEN [with_prec EXCEPT ![succ].num_prec = @ + 1]
        ELSE MapPut(with_prec, succ, [num_prec |-> 1, succ_set |-> {}])

\* add_dependency, lines 51-54
add_dependency(sort, prec, succ) ==
    [sort EXCEPT !.top = add_dependency_impl(@, prec, succ),
                 !.complete_top = add_dependency_impl(@, prec, succ)]

\* remove, lines 94-104
remove(sort, prec) ==
    IF prec \notin DOMAIN sort.top THEN sort
    ELSE LET p == sort.top[prec]
         IN  [sort EXCEPT !.top = [s \in DOMAIN sort.top \ {prec} |->
                                      IF s \in p.succ_set
                                      THEN [sort.top[s] EXCEPT !.num_prec = @ - 1]
                                      ELSE sort.top[s]]]

\* find_priority_succ, lines 153-167
find_priority_succ(sort, last_block) ==
    IF last_block \notin DOMAIN sort.complete_top THEN <<>>
    ELSE LET only_prec == {succ \in sort.complete_top[last_block].succ_set :
                              /\ succ \in DOMAIN sort.complete_top
                              /\ sort.complete_top[succ].num_prec = 1}
         IN  IF only_prec = {} THEN <<>> ELSE <<First(only_prec)>>

\* lines 126-135: the loop that nests the blocks of a chain
RECURSIVE nest_blocks(_, _, _, _)
nest_blocks(sort, nested_blocks, curr_block, succ_set) ==
    LET next_priority_succ == find_priority_succ(sort, curr_block)
    IN  IF next_priority_succ = <<>> \/ Cardinality(succ_set) # 1 THEN nested_blocks
        ELSE LET next == next_priority_succ[1]
             IN  nest_blocks(sort, Append(nested_blocks, next), next,
                             IF next \in DOMAIN sort.complete_top
                             THEN sort.complete_top[next].succ_set
                             ELSE succ_set)

\* peek, lines 110-150: <<>> for None, <<blocks>> for Some(blocks)
peek(sort) ==
    LET priority_succ == IF sort.last_popped_block # <<>>
                         THEN find_priority_succ(sort, sort.last_popped_block[1])
                         ELSE <<>>
        no_prec == {b \in DOMAIN sort.top : sort.top[b].num_prec = 0}
    IN  IF priority_succ # <<>>
        THEN IF priority_succ[1] \in DOMAIN sort.complete_top
             THEN <<nest_blocks(sort, priority_succ, priority_succ[1],
                                sort.complete_top[priority_succ[1]].succ_set)>>
             ELSE <<priority_succ>>
        ELSE IF no_prec # {} THEN <<(<<First(no_prec)>>)>>
        ELSE <<>>

\* lines 85-88: remove each block and remember it as the last popped one
RECURSIVE remove_each(_, _)
remove_each(sort, peek_blocks) ==
    IF peek_blocks = <<>> THEN sort
    ELSE remove_each([remove(sort, Head(peek_blocks))
                         EXCEPT !.last_popped_block = <<Head(peek_blocks)>>],
                     Tail(peek_blocks))

\* pop, lines 83-92: the sort after the call and the value returned
pop(sort) ==
    LET peek_blocks == peek(sort)
    IN  IF peek_blocks # <<>>
        THEN [sort |-> remove_each(sort, peek_blocks[1]), val |-> peek_blocks]
        ELSE [sort |-> sort, val |-> <<>>]

\* the number of add_dependency calls made
Dependencies ==
    LET RECURSIVE Sum(_)
        Sum(blocks) == IF blocks = {} THEN 0
                       ELSE top_sort.complete_top[First(blocks)].num_prec
                                + Sum(blocks \ {First(blocks)})
    IN  Sum(DOMAIN top_sort.complete_top)

\* StacklessStructuredControlFlow::new, lines 20-24: one call per successor of a
\* block, before the first pop
do_add_dependency(prec, succ) ==
    /\ popped = <<>>
    /\ Dependencies < MaxDependencies
    /\ top_sort' = add_dependency(top_sort, prec, succ)
    /\ UNCHANGED <<cache_vars, table_vars, mutator, mutated, popped>>

\* the last pop call returned None
PopReturnedNone == popped # <<>> /\ popped[Len(popped)] = <<>>

\* while let Some(blocks) = top_sort.pop(): the calls end with the first None
do_pop ==
    /\ ~PopReturnedNone
    /\ Len(popped) <= MaxBlocks + 1
    /\ top_sort' = pop(top_sort).sort
    /\ popped' = Append(popped, pop(top_sort).val)
    /\ UNCHANGED <<cache_vars, table_vars, mutator, mutated>>

NextTopSort ==
    \/ \E prec \in Blocks, succ \in Blocks : do_add_dependency(prec, succ)
    \/ do_pop

SpecTopSort == Init /\ [][NextTopSort]_vars

\* the graph the calls describe
AllBlocks == DOMAIN top_sort.complete_top
Succs(blocks) == UNION {top_sort.complete_top[b].succ_set : b \in blocks}
Precs(block) == {b \in AllBlocks : block \in top_sort.complete_top[b].succ_set}
RECURSIVE Descendants(_, _)
Descendants(blocks, steps) ==
    IF steps = 0 THEN {}
    ELSE Succs(blocks) \cup Descendants(Succs(blocks), steps - 1)
Acyclic == \A b \in AllBlocks : b \notin Descendants({b}, Cardinality(AllBlocks))
\* an edge was added more than once
EdgeRepeated == \E b \in AllBlocks : top_sort.complete_top[b].num_prec # Cardinality(Precs(b))

\* the blocks returned so far, in order
RECURSIVE Flatten(_)
Flatten(results) ==
    IF results = <<>> THEN <<>>
    ELSE (IF Head(results) = <<>> THEN <<>> ELSE Head(results)[1]) \o Flatten(Tail(results))
ReturnedBlocks == Flatten(popped)

\* C40: for add_dependency calls that describe an acyclic graph, the same edge added
\* more than once included, popping until None terminates (no more successful pops
\* than blocks) and returns every block exactly once, each block only after all of
\* its predecessors.
C40_PopReturnsEveryBlockInOrder ==
    Acyclic =>
        /\ Len(popped) <= Cardinality(AllBlocks) + 1
        /\ \A i, j \in 1..Len(ReturnedBlocks) :
              /\ i # j => ReturnedBlocks[i] # ReturnedBlocks[j]
              /\ ReturnedBlocks[j] \in Precs(ReturnedBlocks[i]) => j < i
        /\ PopReturnedNone =>
              {ReturnedBlocks[i] : i \in 1..Len(ReturnedBlocks)} = AllBlocks

====
